---- MODULE Spec2Model ----
(***************************************************************************)
(* A model of the Spotify MCP service: the format-tiered object parser of  *)
(* SpotifyService (_parse_object and the four type builders), the pydantic *)
(* schemas it constructs, the case-insensitive enums, and the listing and  *)
(* search operations that assemble PaginatedResponse and SearchResponse.   *)
(*                                                                         *)
(* JSON values are tagged records: t is the Python type of the value.      *)
(* A dict is [t |-> "obj", f |-> <function from keys to values>], a pydantic*)
(* model instance is [t |-> <class name>, f |-> <all declared fields>,     *)
(* set |-> <the keys it was constructed with (model_fields_set)>].         *)
(***************************************************************************)
EXTENDS Integers, Sequences, FiniteSets, TLC

VARIABLES
    pc,     \* where the call is: "call" before it runs, "done" after
    req,    \* the operation called and its arguments
    up,     \* what the upstream client answers to the call
    ret,    \* what the call returned or raised
    log,    \* the records handed to the logger
    calls   \* the requests made of the upstream client, in order

vars == <<pc, req, up, ret, log, calls>>

(***************************** bounds **************************************)
\* how many keys of a well-formed upstream object are damaged at once
MaxDefects == 2
\* how many items an upstream page holds
MaxItems == 3
\* how many object types one search asks for
MaxTypes == 2
\* how many items one slot of an upstream search answer holds
MaxHits == 2
\* how long the strings are that are tried exhaustively as format names
MaxLen == 3
\* by how many entries a batch exceeds its maximum size
MaxOver == 2

(***************************** defaults ************************************)
\* limit: int = 20, offset: int = 0
DefaultLimit == 20
DefaultOffset == 0

(***************************** JSON values *********************************)
\* the element of a one-element set; The({e(x) : x \in {v}}) is e with v
\* evaluated once and named x
The(S) == CHOOSE x \in S : TRUE
Null == [t |-> "null"]
JStr(s) == [t |-> "str", s |-> s]
JInt(n) == [t |-> "int", n |-> n]
JBool(b) == [t |-> "bool", b |-> b]
JObj(f) == [t |-> "obj", f |-> f]
JList(l) == [t |-> "list", l |-> l]
\* no value yet
None == [t |-> "none"]
\* a raised Python exception of class e
Err(e) == [t |-> "error", e |-> e]
\* the same with the message it carries
ErrMsg(e, msg) == [t |-> "error", e |-> e, msg |-> msg]
IsErr(v) == v.t = "error"
\* str(e) of an exception
StrOf(x) == IF "msg" \in DOMAIN x THEN x.msg ELSE x.e
\* d[k]: TypeError on a non-dict, KeyError on an absent key
Sub(d, k) ==
    IF d.t # "obj" THEN Err("TypeError")
    ELSE IF k \notin DOMAIN d.f THEN Err("KeyError")
    ELSE d.f[k]
\* the first exception among the values of a record of results, else None
FirstErr(r, order) ==
    IF \E i \in DOMAIN order : IsErr(r[order[i]])
    THEN r[order[CHOOSE i \in DOMAIN order :
                    /\ IsErr(r[order[i]])
                    /\ \A j \in DOMAIN order : IsErr(r[order[j]]) => i <= j]]
    ELSE None

\* Python truthiness of a JSON value (if x: ...)
Truthy(v) ==
    CASE v.t = "null" -> FALSE
      [] v.t = "str" -> v.s # ""
      [] v.t = "int" -> v.n # 0
      [] v.t = "bool" -> v.b
      [] v.t = "obj" -> DOMAIN v.f # {}
      [] v.t = "list" -> Len(v.l) > 0
      [] OTHER -> TRUE

\* d[k] where the code has d.get(k): an absent key raises
GetStrict(d, k) == IF k \in DOMAIN d.f THEN d.f[k] ELSE Err("KeyError")
\* dict.get(k): the value under k, None when the key is absent
Get(d, k) == IF k \in DOMAIN d.f THEN d.f[k] ELSE Null
\* dict.get(k, default)
GetOr(d, k, default) == IF k \in DOMAIN d.f THEN d.f[k] ELSE default
\* dict.update(e): the keys of e override those of d
Update(d, e) ==
    [k \in DOMAIN d \cup DOMAIN e |-> IF k \in DOMAIN e THEN e[k] ELSE d[k]]

\* the first exception of a sequence of results, or the list of results
Collect(rs) ==
    IF \E i \in DOMAIN rs : IsErr(rs[i])
    THEN rs[CHOOSE i \in DOMAIN rs :
                /\ IsErr(rs[i])
                /\ \A j \in DOMAIN rs : IsErr(rs[j]) => i <= j]
    ELSE JList(rs)

(***************************** enums ***************************************)
MINIMAL == "minimal"
COMPACT == "compact"
FULL == "full"
RAW == "raw"
DataFormat == <<MINIMAL, COMPACT, FULL, RAW>>

TRACK == "track"
ARTIST == "artist"
ALBUM == "album"
PLAYLIST == "playlist"
SHOW == "show"
EPISODE == "episode"
USER == "user"
SpotifyObjectType == <<TRACK, ARTIST, ALBUM, PLAYLIST, SHOW, EPISODE, USER>>

Range(s) == {s[i] : i \in DOMAIN s}

(***************************** pydantic schemas ****************************)
\* field name -> kind of the declared type
SpotifyImage == [height |-> "oint", width |-> "oint", url |-> "str"]
ExternalUrls == [spotify |-> "ostr"]
ExternalIds == [isrc |-> "ostr", ean |-> "ostr", upc |-> "ostr"]
Followers == [href |-> "ostr", total |-> "int"]
Artist ==
    [id |-> "str", name |-> "str", type |-> "str", uri |-> "str",
     href |-> "str", external_urls |-> "oExternalUrls",
     images |-> "oimages", genres |-> "ostrlist", popularity |-> "oint",
     followers |-> "oFollowers"]
Album ==
    [id |-> "str", name |-> "str", type |-> "str", uri |-> "str",
     href |-> "str", external_urls |-> "oExternalUrls",
     images |-> "oimages", artists |-> "artists", album_type |-> "ostr",
     total_tracks |-> "oint", release_date |-> "ostr",
     release_date_precision |-> "ostr", genres |-> "ostrlist",
     popularity |-> "oint", external_ids |-> "oExternalIds"]
Track ==
    [id |-> "str", name |-> "str", type |-> "str", uri |-> "str",
     href |-> "str", external_urls |-> "oExternalUrls",
     artists |-> "artists", album |-> "oAlbum", duration_ms |-> "oint",
     explicit |-> "obool", popularity |-> "oint", preview_url |-> "ostr",
     track_number |-> "oint", disc_number |-> "oint", is_local |-> "obool",
     external_ids |-> "oExternalIds"]
Playlist ==
    [id |-> "str", name |-> "str", type |-> "str", uri |-> "str",
     href |-> "str", external_urls |-> "oExternalUrls",
     images |-> "oimages", description |-> "ostr", owner |-> "odict",
     public |-> "obool", collaborative |-> "obool",
     followers |-> "oFollowers", tracks |-> "odict",
     snapshot_id |-> "ostr"]

SearchResponse ==
    [tracks |-> "oTrackList", artists |-> "oArtistList",
     albums |-> "oAlbumList", playlists |-> "oPlaylistList",
     total_results |-> "int", format_used |-> "DataFormat"]
PaginatedResponse ==
    [items |-> "anylist", total |-> "oint", limit |-> "int",
     offset |-> "int", next |-> "ostr", previous |-> "ostr"]
AudioFeatures ==
    [id |-> "str", danceability |-> "float", energy |-> "float",
     key |-> "int", loudness |-> "float", mode |-> "int",
     speechiness |-> "float", acousticness |-> "float",
     instrumentalness |-> "float", liveness |-> "float",
     valence |-> "float", tempo |-> "float", duration_ms |-> "int",
     time_signature |-> "int"]

SpotifyTokenInfo ==
    [access_token |-> "str", user_id |-> "str", display_name |-> "ostr",
     email |-> "ostr", country |-> "ostr", product |-> "ostr",
     followers |-> "oint", token_type |-> "str"]

Device ==
    [id |-> "ostr", is_active |-> "bool", is_private_session |-> "bool",
     is_restricted |-> "bool", name |-> "str", type |-> "str",
     volume_percent |-> "oint"]
PlaybackState ==
    [device |-> "oDevice", repeat_state |-> "str", shuffle_state |-> "bool",
     context |-> "odict", timestamp |-> "int", progress_ms |-> "oint",
     is_playing |-> "bool", item |-> "oTrack",
     currently_playing_type |-> "str"]

Schema(cls) ==
    CASE cls = "SpotifyImage" -> SpotifyImage
      [] cls = "Device" -> Device
      [] cls = "PlaybackState" -> PlaybackState
      [] cls = "SpotifyTokenInfo" -> SpotifyTokenInfo
      [] cls = "SearchResponse" -> SearchResponse
      [] cls = "PaginatedResponse" -> PaginatedResponse
      [] cls = "AudioFeatures" -> AudioFeatures
      [] cls = "ExternalUrls" -> ExternalUrls
      [] cls = "ExternalIds" -> ExternalIds
      [] cls = "Followers" -> Followers
      [] cls = "Artist" -> Artist
      [] cls = "Album" -> Album
      [] cls = "Track" -> Track
      [] cls = "Playlist" -> Playlist

\* model_config = ConfigDict(extra="allow"); the default is to ignore extras
ExtraAllowed(cls) == cls \in {"Artist", "Album", "Track", "Playlist"}

\* Field(default="artist") and the like: the type tag of the four objects
TypeTag(cls) ==
    CASE cls = "Artist" -> ARTIST
      [] cls = "Album" -> ALBUM
      [] cls = "Track" -> TRACK
      [] cls = "Playlist" -> PLAYLIST

\* the class a model kind names
KindClass(kind) ==
    CASE kind = "oExternalUrls" -> "ExternalUrls"
      [] kind = "oExternalIds" -> "ExternalIds"
      [] kind = "oFollowers" -> "Followers"
      [] kind = "oAlbum" -> "Album"
      [] kind = "oTrack" -> "Track"
      [] kind = "oDevice" -> "Device"
      [] kind = "oTrackList" -> "Track"
      [] kind = "oArtistList" -> "Artist"
      [] kind = "oAlbumList" -> "Album"
      [] kind = "oPlaylistList" -> "Playlist"

\* the kinds that are not Optional[...]: None is no value of theirs
NotOptional ==
    {"str", "int", "float", "bool", "artists", "anylist", "DataFormat"}

\* strings pydantic's lax mode parses as an integer
NumericStr == [s \in {"7"} |-> 7]

RECURSIVE Validate(_, _)
RECURSIVE Construct(_, _)

\* a value against Optional[cls] / cls: instances are kept, dicts validated
ValidateModel(cls, v) ==
    IF v.t = cls THEN v
    ELSE IF v.t = "obj" THEN Construct(cls, v.f)
    ELSE Err("ValidationError")

\* a value against List[...]: every element validated, in order
ValidateList(elem(_), v) ==
    IF v.t # "list" THEN Err("ValidationError")
    ELSE LET rs == [i \in DOMAIN v.l |-> elem(v.l[i])]
         IN IF \E i \in DOMAIN rs : IsErr(rs[i])
            THEN Err("ValidationError") ELSE JList(rs)

\* pydantic validation of one value against the declared type of a field
Validate(kind, v) ==
    IF v.t = "null"
    THEN IF kind \in NotOptional THEN Err("ValidationError") ELSE Null
    ELSE CASE kind \in {"str", "ostr"} ->
                IF v.t = "str" THEN v ELSE Err("ValidationError")
           \* a float field takes an int as well
           [] kind \in {"int", "oint", "float"} ->
                IF v.t = "int" THEN v
                ELSE IF v.t = "str" /\ v.s \in DOMAIN NumericStr
                     THEN JInt(NumericStr[v.s])
                     ELSE Err("ValidationError")
           [] kind \in {"obool", "bool"} ->
                IF v.t = "bool" THEN v
                ELSE IF v.t = "int" /\ v.n \in {0, 1} THEN JBool(v.n = 1)
                ELSE Err("ValidationError")
           [] kind = "odict" ->
                IF v.t = "obj" THEN v ELSE Err("ValidationError")
           [] kind = "ostrlist" ->
                LET elem(x) == Validate("str", x) IN ValidateList(elem, v)
           [] kind = "oimages" ->
                LET elem(x) == ValidateModel("SpotifyImage", x)
                IN ValidateList(elem, v)
           [] kind = "artists" ->
                LET elem(x) == ValidateModel("Artist", x)
                IN ValidateList(elem, v)
           [] kind \in {"oTrackList", "oArtistList", "oAlbumList",
                        "oPlaylistList"} ->
                LET elem(x) == ValidateModel(KindClass(kind), x)
                IN ValidateList(elem, v)
           [] kind = "anylist" ->
                IF v.t = "list" THEN v ELSE Err("ValidationError")
           [] kind = "DataFormat" ->
                IF v.t = "str" /\ v.s \in Range(DataFormat)
                THEN v ELSE Err("ValidationError")
           [] OTHER -> ValidateModel(KindClass(kind), v)

\* the value of a declared field the data does not give
Default(cls, k) ==
    IF Schema(cls)[k] \in NotOptional
    THEN IF k = "type" /\ cls \in {"Artist", "Album", "Track", "Playlist"}
         THEN JStr(TypeTag(cls)) ELSE Err("ValidationError")
    ELSE Null

\* cls(**data): every declared field validated or defaulted, extras kept
\* where the class allows them; a ValidationError when any field fails
Construct(cls, data) ==
    The({The({
        LET declared == DOMAIN Schema(cls)
            extras == IF ExtraAllowed(cls) THEN DOMAIN d \ declared ELSE {}
        IN IF \E k \in declared : IsErr(vals[k])
           THEN Err("ValidationError")
           ELSE [t |-> cls,
                 f |-> [k \in declared \cup extras |->
                           IF k \in declared THEN vals[k] ELSE d[k]],
                 set |-> DOMAIN d \cap (declared \cup extras)]
        : vals \in {[k \in DOMAIN Schema(cls) |->
                        IF k \in DOMAIN d
                        THEN Validate(Schema(cls)[k], d[k])
                        ELSE Default(cls, k)]}})
        : d \in {data}})

(***************************** the type builders ***************************)
\* d[k] for each k of ks, in order: TypeError on a non-dict, KeyError on
\* the first absent key
Subscript(d, ks) ==
    IF d.t # "obj" THEN Err("TypeError")
    ELSE IF \E i \in DOMAIN ks : ks[i] \notin DOMAIN d.f THEN Err("KeyError")
    ELSE None

\* _parse_artist merging the COMPACT fields at COMPACT only
ParseArtistCompactOnly(artist_data, format) ==
    LET sub == Subscript(artist_data, <<"id", "name", "uri", "href">>)
        base_data ==
            [id |-> artist_data.f["id"],
             name |-> artist_data.f["name"],
             uri |-> artist_data.f["uri"],
             href |-> artist_data.f["href"],
             external_urls |-> Get(artist_data, "external_urls")]
        compact ==
            IF format = COMPACT
            THEN [images |-> Get(artist_data, "images"),
                  popularity |-> Get(artist_data, "popularity")]
            ELSE <<>>
        full ==
            IF format = FULL
            THEN [genres |-> Get(artist_data, "genres"),
                  followers |-> Get(artist_data, "followers")]
            ELSE <<>>
    IN IF IsErr(sub) THEN sub
       ELSE Construct("Artist", Update(Update(base_data, compact), full))

\* _parse_artist reading the required keys with .get(key, "")
ParseArtistPlaceholder(artist_data, format) ==
    LET base_data ==
            [id |-> GetOr(artist_data, "id", JStr("")),
             name |-> GetOr(artist_data, "name", JStr("")),
             uri |-> GetOr(artist_data, "uri", JStr("")),
             href |-> GetOr(artist_data, "href", JStr("")),
             external_urls |-> Get(artist_data, "external_urls")]
        compact ==
            IF format \in {COMPACT, FULL}
            THEN [images |-> Get(artist_data, "images"),
                  popularity |-> Get(artist_data, "popularity")]
            ELSE <<>>
        full ==
            IF format = FULL
            THEN [genres |-> Get(artist_data, "genres"),
                  followers |-> Get(artist_data, "followers")]
            ELSE <<>>
    IN IF artist_data.t # "obj" THEN Err("TypeError")
       ELSE Construct("Artist", Update(Update(base_data, compact), full))

\* SpotifyService._parse_artist
ParseArtist(artist_data, format) ==
    LET sub == Subscript(artist_data, <<"id", "name", "uri", "href">>)
        base_data ==
            [id |-> artist_data.f["id"],
             name |-> artist_data.f["name"],
             uri |-> artist_data.f["uri"],
             href |-> artist_data.f["href"],
             external_urls |-> Get(artist_data, "external_urls")]
        compact ==
            IF format \in {COMPACT, FULL}
            THEN [images |-> Get(artist_data, "images"),
                  popularity |-> Get(artist_data, "popularity")]
            ELSE <<>>
        full ==
            IF format = FULL
            THEN [genres |-> Get(artist_data, "genres"),
                  followers |-> Get(artist_data, "followers")]
            ELSE <<>>
    IN IF IsErr(sub) THEN sub
       ELSE Construct("Artist", Update(Update(base_data, compact), full))

\* the nested artists parsed at COMPACT
ParseArtistsCompact(data) ==
    LET artists == GetOr(data, "artists", JList(<<>>))
    IN IF artists.t # "list" THEN Err("TypeError")
       ELSE Collect([i \in DOMAIN artists.l |->
                        ParseArtist(artists.l[i], COMPACT)])

\* [self._parse_artist(artist, MINIMAL) for artist in data.get("artists", [])]
\* the nested artists built by a descent that goes on below each artist:
\* every artist carries the artist built from it once more
ParseArtistsDescending(data) ==
    LET artists == GetOr(data, "artists", JList(<<>>))
        below(a) == IF IsErr(a) THEN a
                    ELSE [a EXCEPT !.f = Update(a.f, [related |-> JList(<<a>>)])]
    IN IF artists.t # "list" THEN Err("TypeError")
       ELSE Collect([i \in DOMAIN artists.l |->
                        below(ParseArtist(artists.l[i], MINIMAL))])

ParseArtists(data) ==
    LET artists == GetOr(data, "artists", JList(<<>>))
    IN IF artists.t # "list" THEN Err("TypeError")
       ELSE Collect([i \in DOMAIN artists.l |->
                        ParseArtist(artists.l[i], MINIMAL)])

\* SpotifyService._parse_album
ParseAlbum(album_data, format) ==
    LET sub == Subscript(album_data, <<"id", "name", "uri", "href">>)
    IN IF IsErr(sub) THEN sub
       ELSE The({
    LET base_data ==
            [id |-> album_data.f["id"],
             name |-> album_data.f["name"],
             uri |-> album_data.f["uri"],
             href |-> album_data.f["href"],
             external_urls |-> Get(album_data, "external_urls"),
             artists |-> artists]
        compact ==
            IF format \in {COMPACT, FULL}
            THEN [images |-> Get(album_data, "images"),
                  album_type |-> Get(album_data, "album_type"),
                  total_tracks |-> Get(album_data, "total_tracks"),
                  release_date |-> Get(album_data, "release_date")]
            ELSE <<>>
        full ==
            IF format = FULL
            THEN [release_date_precision |->
                      Get(album_data, "release_date_precision"),
                  genres |-> Get(album_data, "genres"),
                  popularity |-> Get(album_data, "popularity"),
                  external_ids |-> Get(album_data, "external_ids")]
            ELSE <<>>
    IN IF IsErr(artists) THEN artists
       ELSE Construct("Album", Update(Update(base_data, compact), full))
    : artists \in {ParseArtists(album_data)}})

\* _parse_track merging the COMPACT fields at every format
ParseTrackAlwaysCompact(track_data, format) ==
    LET sub == Subscript(track_data, <<"id", "name", "uri", "href">>)
    IN IF IsErr(sub) THEN sub
       ELSE The({
    LET base_data ==
            [id |-> track_data.f["id"],
             name |-> track_data.f["name"],
             uri |-> track_data.f["uri"],
             href |-> track_data.f["href"],
             external_urls |-> Get(track_data, "external_urls"),
             artists |-> artists]
        compact ==
            [album |-> album,
             duration_ms |-> Get(track_data, "duration_ms"),
             explicit |-> Get(track_data, "explicit"),
             popularity |-> Get(track_data, "popularity"),
             preview_url |-> Get(track_data, "preview_url")]
        full ==
            IF format = FULL
            THEN [track_number |-> Get(track_data, "track_number"),
                  disc_number |-> Get(track_data, "disc_number"),
                  is_local |-> Get(track_data, "is_local"),
                  external_ids |-> Get(track_data, "external_ids")]
            ELSE <<>>
    IN IF IsErr(artists) THEN artists
       ELSE IF IsErr(album) THEN album
       ELSE Construct("Track", Update(Update(base_data, compact), full))
    : artists \in {ParseArtists(track_data)},
      album \in {IF Truthy(Get(track_data, "album"))
                 THEN ParseAlbum(track_data.f["album"], MINIMAL)
                 ELSE Null}})

\* SpotifyService._parse_track
ParseTrack(track_data, format) ==
    LET sub == Subscript(track_data, <<"id", "name", "uri", "href">>)
    IN IF IsErr(sub) THEN sub
       ELSE The({
    LET base_data ==
            [id |-> track_data.f["id"],
             name |-> track_data.f["name"],
             uri |-> track_data.f["uri"],
             href |-> track_data.f["href"],
             external_urls |-> Get(track_data, "external_urls"),
             artists |-> artists]
        compact ==
            IF format \in {COMPACT, FULL}
            THEN [album |-> album,
                  duration_ms |-> Get(track_data, "duration_ms"),
                  explicit |-> Get(track_data, "explicit"),
                  popularity |-> Get(track_data, "popularity"),
                  preview_url |-> Get(track_data, "preview_url")]
            ELSE <<>>
        full ==
            IF format = FULL
            THEN [track_number |-> Get(track_data, "track_number"),
                  disc_number |-> Get(track_data, "disc_number"),
                  is_local |-> Get(track_data, "is_local"),
                  external_ids |-> Get(track_data, "external_ids")]
            ELSE <<>>
    IN IF IsErr(artists) THEN artists
       ELSE IF IsErr(album) THEN album
       ELSE Construct("Track", Update(Update(base_data, compact), full))
    : artists \in {ParseArtists(track_data)},
      \* the album is read and built in the COMPACT branch only
      album \in {IF format \in {COMPACT, FULL}
                    /\ Truthy(Get(track_data, "album"))
                 THEN ParseAlbum(track_data.f["album"], MINIMAL)
                 ELSE Null}})

\* SpotifyService._parse_playlist
ParsePlaylist(playlist_data, format) ==
    LET sub == Subscript(playlist_data, <<"id", "name", "uri", "href">>)
        base_data ==
            [id |-> playlist_data.f["id"],
             name |-> playlist_data.f["name"],
             uri |-> playlist_data.f["uri"],
             href |-> playlist_data.f["href"],
             external_urls |-> Get(playlist_data, "external_urls")]
        compact ==
            IF format \in {COMPACT, FULL}
            THEN [images |-> Get(playlist_data, "images"),
                  description |-> Get(playlist_data, "description"),
                  owner |-> Get(playlist_data, "owner"),
                  public |-> Get(playlist_data, "public"),
                  collaborative |-> Get(playlist_data, "collaborative"),
                  tracks |-> Get(playlist_data, "tracks")]
            ELSE <<>>
        full ==
            IF format = FULL
            THEN [followers |-> Get(playlist_data, "followers"),
                  snapshot_id |-> Get(playlist_data, "snapshot_id")]
            ELSE <<>>
    IN IF IsErr(sub) THEN sub
       ELSE Construct("Playlist", Update(Update(base_data, compact), full))

\* the dispatch of _parse_object on the object type; types without a
\* builder (show, episode, user) come back as they are
Builder(obj, obj_type, format) ==
    CASE obj_type = TRACK -> ParseTrack(obj, format)
      [] obj_type = ARTIST -> ParseArtist(obj, format)
      [] obj_type = ALBUM -> ParseAlbum(obj, format)
      [] obj_type = PLAYLIST -> ParsePlaylist(obj, format)
      [] OTHER -> obj

\* _parse_object without its RAW branch
ParseObjectRunNoRaw(obj, obj_type, format) ==
    The({IF IsErr(r)
         THEN [value |-> obj,
               log |-> <<[level |-> "warning", obj_type |-> obj_type,
                          e |-> r.e]>>]
         ELSE [value |-> r, log |-> <<>>]
         : r \in {Builder(obj, obj_type, format)}})

\* _parse_object without its except clause: the builder's exception leaves
ParseObjectRunRaising(obj, obj_type, format) ==
    IF format = RAW THEN [value |-> obj, log |-> <<>>]
    ELSE [value |-> Builder(obj, obj_type, format), log |-> <<>>]

\* SpotifyService._parse_object, with what it hands to logger.warning: RAW
\* first, then the builder, and the raw object when the builder raised
ParseObjectRun(obj, obj_type, format) ==
    IF format = RAW THEN [value |-> obj, log |-> <<>>]
    ELSE The({IF IsErr(r)
              THEN [value |-> obj,
                    log |-> <<[level |-> "warning", obj_type |-> obj_type,
                               e |-> r.e]>>]
              ELSE [value |-> r, log |-> <<>>]
              : r \in {Builder(obj, obj_type, format)}})

ParseObject(obj, obj_type, format) == ParseObjectRun(obj, obj_type, format).value

(***************************** upstream payloads ***************************)
\* well-formed upstream objects, as the Web API documents them
TExternalUrls == JObj([spotify |-> JStr("https://open.spotify.com/x")])
TExternalIds == JObj([isrc |-> JStr("US0000000001")])
TImages ==
    JList(<<JObj([url |-> JStr("https://i.scdn.co/1"),
                  height |-> JInt(64), width |-> JInt(64)])>>)
TFollowers == JObj([href |-> Null, total |-> JInt(10)])
TGenres == JList(<<JStr("rock")>>)

TArtist(id) ==
    [id |-> JStr(id), name |-> JStr("artist name"), type |-> JStr(ARTIST),
     uri |-> JStr("spotify:artist"), href |-> JStr("https://api/artists"),
     external_urls |-> TExternalUrls, images |-> TImages,
     genres |-> TGenres, popularity |-> JInt(50), followers |-> TFollowers]

TAlbum(id) ==
    [id |-> JStr(id), name |-> JStr("album name"), type |-> JStr(ALBUM),
     uri |-> JStr("spotify:album"), href |-> JStr("https://api/albums"),
     external_urls |-> TExternalUrls, images |-> TImages,
     artists |-> JList(<<JObj(TArtist("ar1"))>>),
     album_type |-> JStr("single"), total_tracks |-> JInt(3),
     release_date |-> JStr("2020-01-01"),
     release_date_precision |-> JStr("day"), genres |-> TGenres,
     popularity |-> JInt(40), external_ids |-> TExternalIds]

TTrack(id) ==
    [id |-> JStr(id), name |-> JStr("track name"), type |-> JStr(TRACK),
     uri |-> JStr("spotify:track"), href |-> JStr("https://api/tracks"),
     external_urls |-> TExternalUrls,
     artists |-> JList(<<JObj(TArtist("ar1"))>>),
     album |-> JObj(TAlbum("al1")), duration_ms |-> JInt(1000),
     explicit |-> JBool(FALSE), popularity |-> JInt(30),
     preview_url |-> JStr("https://p.scdn.co/1"), track_number |-> JInt(1),
     disc_number |-> JInt(1), is_local |-> JBool(FALSE),
     external_ids |-> TExternalIds]

TPlaylist(id) ==
    [id |-> JStr(id), name |-> JStr("playlist name"),
     type |-> JStr(PLAYLIST), uri |-> JStr("spotify:playlist"),
     href |-> JStr("https://api/playlists"),
     external_urls |-> TExternalUrls, images |-> TImages,
     description |-> JStr("text"), owner |-> JObj([id |-> JStr("u1")]),
     public |-> JBool(TRUE), collaborative |-> JBool(FALSE),
     followers |-> TFollowers,
     tracks |-> JObj([href |-> JStr("https://api/tracks"),
                      total |-> JInt(3)]),
     snapshot_id |-> JStr("snap")]

\* an object of a type that has no builder
TOther(ty, id) ==
    [id |-> JStr(id), name |-> JStr("other name"), type |-> JStr(ty),
     uri |-> JStr("spotify:other"), href |-> JStr("https://api/other")]

Template(ty, id) ==
    CASE ty = TRACK -> TTrack(id)
      [] ty = ARTIST -> TArtist(id)
      [] ty = ALBUM -> TAlbum(id)
      [] ty = PLAYLIST -> TPlaylist(id)
      [] OTHER -> TOther(ty, id)

\* the class a builder constructs for an object type
ClassOf(ty) ==
    CASE ty = TRACK -> "Track"
      [] ty = ARTIST -> "Artist"
      [] ty = ALBUM -> "Album"
      [] ty = PLAYLIST -> "Playlist"

Parsed == {TRACK, ARTIST, ALBUM, PLAYLIST}

\* f without the key k
Without(f, k) == [j \in DOMAIN f \ {k} |-> f[j]]
\* f with v under k
With(f, k, v) == [j \in DOMAIN f \cup {k} |-> IF j = k THEN v ELSE f[j]]

\* what schema drift does to the value of one key: the key absent (the
\* marker None), null, of the wrong type, and per kind one more shape
Drift(kind) ==
    <<None, Null, IF kind \in {"str", "ostr"} THEN JInt(7) ELSE JStr("x")>>
    \o (CASE kind \in {"int", "oint"} -> <<JStr("7")>>
          [] kind = "artists" ->
               <<JList(<<>>), JList(<<JObj(Without(TArtist("ar1"), "id"))>>)>>
          [] kind = "oAlbum" ->
               <<JObj(Without(TAlbum("al1"), "id")),
                 JObj(Without(TAlbum("al1"), "artists"))>>
          [] kind = "oimages" -> <<JList(<<JObj([height |-> JInt(64)])>>)>>
          [] kind = "oFollowers" -> <<JObj([href |-> Null])>>
          [] OTHER -> <<>>)

\* the ways to damage at most MaxDefects keys of an object of the schema:
\* which keys, and for each the drift it suffers
Damages(schema) ==
    UNION {{d \in [K -> 1..5] : \A k \in K : d[k] <= Len(Drift(schema[k]))}
           : K \in {K \in SUBSET DOMAIN schema : Cardinality(K) <= MaxDefects}}

\* the object f after the damage d
Damaged(schema, f, d) ==
    [k \in {j \in DOMAIN f : j \notin DOMAIN d \/ Drift(schema[j])[d[j]] # None}
        |-> IF k \in DOMAIN d THEN Drift(schema[k])[d[k]] ELSE f[k]]

(***************************** the normalizer ******************************)
\* one call of _parse_object: an upstream object (well-formed, damaged, or
\* no dict at all), its type and a format
InitNormalize ==
    /\ pc = "call"
    /\ \E ty \in Range(SpotifyObjectType), fmt \in Range(DataFormat) :
         \/ /\ ty \in Parsed
            /\ \E d \in Damages(Schema(ClassOf(ty))) :
                 req = [op |-> "_parse_object",
                        obj |-> JObj(Damaged(Schema(ClassOf(ty)),
                                             Template(ty, "id1"), d)),
                        obj_type |-> ty, format |-> fmt]
         \/ /\ ty \notin Parsed
            /\ \E o \in {JObj(Template(ty, "id1")),
                         JObj(Without(Template(ty, "id1"), "id"))} :
                 req = [op |-> "_parse_object", obj |-> o, obj_type |-> ty,
                        format |-> fmt]
         \/ \E o \in {Null, JStr("x")} :
                 req = [op |-> "_parse_object", obj |-> o, obj_type |-> ty,
                        format |-> fmt]
    /\ up = None
    /\ ret = None
    /\ log = <<>>
    /\ calls = <<>>

\* _parse_object runs to its return
CallParseObject ==
    /\ pc = "call"
    /\ req.op = "_parse_object"
    /\ \E run \in {ParseObjectRun(req.obj, req.obj_type, req.format)} :
          /\ ret' = run.value
          /\ log' = log \o run.log
    /\ pc' = "done"
    /\ UNCHANGED <<req, up, calls>>

NextNormalize == CallParseObject

SpecNormalize == InitNormalize /\ [][NextNormalize]_vars

(***************************** listing operations **************************)
RECURSIVE Flatten(_)
\* the concatenation of a sequence of sequences
Flatten(ss) == IF ss = <<>> THEN <<>> ELSE Head(ss) \o Flatten(Tail(ss))

\* the except clause of an operation: logger.error, then
\* raise Exception(f"{prefix}: {str(e)}")
Failed(prefix, e, logged, called) ==
    [ret |-> ErrMsg("Exception", <<prefix, StrOf(e)>>),
     log |-> logged \o <<[level |-> "error", msg |-> <<prefix, StrOf(e)>>]>>,
     calls |-> called]

\* the comprehension leaving out the objects whose builder raised
ParseAllSkipping(raws, obj_type, format) ==
    The({LET kept == {i \in DOMAIN runs : runs[i].log = <<>>}
             nth(j) == CHOOSE i \in kept :
                          Cardinality({k \in kept : k < i}) = j - 1
         IN [j \in 1..Cardinality(kept) |-> runs[nth(j)]]
         : runs \in {[i \in DOMAIN raws |->
                        ParseObjectRun(raws[i], obj_type, format)]}})

\* [self._parse_object(x, obj_type, format) for x in raws]
ParseAll(raws, obj_type, format) ==
    [i \in DOMAIN raws |-> ParseObjectRun(raws[i], obj_type, format)]

\* a page whose total is counted from the items it holds
PaginatedCounting(items, results) ==
    The({LET e == FirstErr(d, <<"total", "limit", "offset", "next",
                                "previous">>)
         IN IF IsErr(e) THEN e ELSE Construct("PaginatedResponse", d)
         : d \in {[items |-> items,
                   total |-> IF IsErr(Sub(results, "total"))
                             THEN Sub(results, "total")
                             ELSE JInt(Len(items.l)),
                   limit |-> Sub(results, "limit"),
                   offset |-> Sub(results, "offset"),
                   next |-> Sub(results, "next"),
                   previous |-> Sub(results, "previous")]}})

\* PaginatedResponse(items=items, total=results["total"], ...)
Paginated(items, results) ==
    The({LET e == FirstErr(d, <<"total", "limit", "offset", "next",
                                "previous">>)
         IN IF IsErr(e) THEN e ELSE Construct("PaginatedResponse", d)
         : d \in {[items |-> items,
                   total |-> Sub(results, "total"),
                   limit |-> Sub(results, "limit"),
                   offset |-> Sub(results, "offset"),
                   next |-> Sub(results, "next"),
                   previous |-> Sub(results, "previous")]}})

\* the body of a listing operation after the upstream call: the items of
\* the answer, each one mapped by pick (item or item["track"]) and parsed
Listing(prefix, answer, pick(_), obj_type, format, called) ==
    LET items == Sub(answer, "items")
    IN IF IsErr(answer) THEN Failed(prefix, answer, <<>>, called)
       ELSE IF IsErr(items) THEN Failed(prefix, items, <<>>, called)
       ELSE IF items.t # "list"
            THEN Failed(prefix, Err("TypeError"), <<>>, called)
       ELSE The({The({The({
                IF n < Len(raws) THEN Failed(prefix, raws[n + 1], logged, called)
                ELSE IF IsErr(page) THEN Failed(prefix, page, logged, called)
                ELSE [ret |-> page, log |-> logged, calls |-> called]
                : logged \in {Flatten([i \in DOMAIN runs |-> runs[i].log])},
                  page \in {Paginated(JList([i \in DOMAIN runs |->
                                                runs[i].value]), answer)}})
              : runs \in {ParseAll(SubSeq(raws, 1, n), obj_type, format)}})
            \* the comprehension stops at the first item pick raises on
            : raws \in {[i \in DOMAIN items.l |-> pick(items.l[i])]},
              n \in {IF \A i \in DOMAIN items.l : ~IsErr(pick(items.l[i]))
                     THEN Len(items.l)
                     ELSE (CHOOSE i \in DOMAIN items.l :
                             /\ IsErr(pick(items.l[i]))
                             /\ \A j \in 1..(i - 1) :
                                  ~IsErr(pick(items.l[j]))) - 1}})

\* SpotifyService.get_user_playlists
GetUserPlaylists(limit, offset, format, answer) ==
    LET pick(item) == item
    IN Listing("Failed to get user playlists", answer, pick, PLAYLIST, format,
               <<[api |-> "current_user_playlists", limit |-> limit,
                  offset |-> offset]>>)

\* SpotifyService.get_saved_tracks
GetSavedTracks(limit, offset, market, format, answer) ==
    LET pick(item) == Sub(item, "track")
    IN Listing("Failed to get saved tracks", answer, pick, TRACK, format,
               <<[api |-> "current_user_saved_tracks", limit |-> limit,
                  offset |-> offset, market |-> market]>>)

\* get_top_items taking every item_type but "tracks" for "artists"
GetTopItemsElseArtists(item_type, time_range, limit, offset, answer) ==
    LET pick(item) == item
        prefix == <<"Failed to get top ", item_type>>
    IN IF item_type = "tracks"
       THEN Listing(prefix, answer, pick, TRACK, COMPACT,
                    <<[api |-> "current_user_top_tracks",
                       time_range |-> time_range, limit |-> limit,
                       offset |-> offset]>>)
       ELSE Listing(prefix, answer, pick, ARTIST, COMPACT,
                    <<[api |-> "current_user_top_artists",
                       time_range |-> time_range, limit |-> limit,
                       offset |-> offset]>>)

\* SpotifyService.get_top_items
GetTopItems(item_type, time_range, limit, offset, answer) ==
    LET pick(item) == item
        prefix == <<"Failed to get top ", item_type>>
    IN IF item_type = "tracks"
       THEN Listing(prefix, answer, pick, TRACK, COMPACT,
                    <<[api |-> "current_user_top_tracks",
                       time_range |-> time_range, limit |-> limit,
                       offset |-> offset]>>)
       ELSE IF item_type = "artists"
       THEN Listing(prefix, answer, pick, ARTIST, COMPACT,
                    <<[api |-> "current_user_top_artists",
                       time_range |-> time_range, limit |-> limit,
                       offset |-> offset]>>)
       ELSE Failed(prefix, ErrMsg("ValueError", "Invalid item_type"),
                   <<>>, <<>>)

\* create_playlist asking for the current user a second time when the
\* first request failed
CreatePlaylistRetrying(request, user, result) ==
    LET prefix == "Failed to create playlist"
        first == <<[api |-> "current_user"]>>
        user_id == Sub(user, "id")
        both == first \o <<[api |-> "user_playlist_create",
                            user |-> user_id, name |-> request.name,
                            public |-> request.public,
                            collaborative |-> request.collaborative,
                            description |->
                                IF Truthy(request.description)
                                THEN request.description ELSE JStr("")]>>
    IN IF IsErr(user) THEN Failed(prefix, user, <<>>, first \o first)
       ELSE IF IsErr(user_id) THEN Failed(prefix, user_id, <<>>, first)
       ELSE IF IsErr(result) THEN Failed(prefix, result, <<>>, both)
       ELSE The({[ret |-> run.value, log |-> run.log, calls |-> both]
                 : run \in {ParseObjectRun(result, PLAYLIST, FULL)}})

\* SpotifyService.create_playlist: the current user is asked for, then the
\* playlist is created for its id and parsed at FULL; user and result are
\* the answers of the two endpoints
CreatePlaylist(request, user, result) ==
    LET prefix == "Failed to create playlist"
        first == <<[api |-> "current_user"]>>
        user_id == Sub(user, "id")
        both == first \o <<[api |-> "user_playlist_create",
                            user |-> user_id, name |-> request.name,
                            public |-> request.public,
                            collaborative |-> request.collaborative,
                            description |->
                                IF Truthy(request.description)
                                THEN request.description ELSE JStr("")]>>
    IN IF IsErr(user) THEN Failed(prefix, user, <<>>, first)
       ELSE IF IsErr(user_id) THEN Failed(prefix, user_id, <<>>, first)
       ELSE IF IsErr(result) THEN Failed(prefix, result, <<>>, both)
       ELSE The({[ret |-> run.value, log |-> run.log, calls |-> both]
                 : run \in {ParseObjectRun(result, PLAYLIST, FULL)}})

\* PlaybackState(device=..., ..., item=self._parse_track(item, format)
\* if playback_data.get("item") else None, ...): the arguments are
\* evaluated in order and the first that raises ends the call
ParsePlaybackStateAt(playback_data, format) ==
    The({LET e == FirstErr(d, <<"repeat_state", "shuffle_state", "timestamp",
                                "is_playing", "item",
                                "currently_playing_type">>)
         IN IF IsErr(e) THEN e ELSE Construct("PlaybackState", d)
         : d \in {[device |-> Get(playback_data, "device"),
                   repeat_state |-> Sub(playback_data, "repeat_state"),
                   shuffle_state |-> Sub(playback_data, "shuffle_state"),
                   context |-> Get(playback_data, "context"),
                   timestamp |-> Sub(playback_data, "timestamp"),
                   progress_ms |-> Get(playback_data, "progress_ms"),
                   is_playing |-> Sub(playback_data, "is_playing"),
                   item |-> IF Truthy(Get(playback_data, "item"))
                            THEN ParseTrack(playback_data.f["item"], format)
                            ELSE Null,
                   currently_playing_type |->
                       Sub(playback_data, "currently_playing_type")]}})

\* the playback state with its item at FULL
ParsePlaybackStateFull(playback_data) ==
    ParsePlaybackStateAt(playback_data, FULL)

\* SpotifyService._parse_playback_state
ParsePlaybackState(playback_data) ==
    ParsePlaybackStateAt(playback_data, COMPACT)

\* SpotifyService.get_current_playback
GetCurrentPlayback(answer) ==
    LET prefix == "Failed to get current playback"
        called == <<[api |-> "current_playback"]>>
    IN IF IsErr(answer) THEN Failed(prefix, answer, <<>>, called)
       ELSE IF ~Truthy(answer)
            THEN [ret |-> None, log |-> <<>>, calls |-> called]
       ELSE The({IF IsErr(state) THEN Failed(prefix, state, <<>>, called)
                 ELSE [ret |-> state, log |-> <<>>, calls |-> called]
                 : state \in {ParsePlaybackState(answer)}})

\* the sequences over S of length at most n
SeqsUpTo(S, n) == UNION {[1..m -> S] : m \in 0..n}

\* the upstream items of a listing: two well-formed ones and one without id
ItemPool(ty) ==
    {JObj(Template(ty, "id1")), JObj(Template(ty, "id2")),
     JObj(Without(Template(ty, "id1"), "id"))}

\* the pagination fields of an upstream page
Pagings ==
    {[total |-> JInt(5), limit |-> JInt(20), offset |-> JInt(0),
      next |-> JStr("https://api/next"), previous |-> Null],
     [total |-> Null, limit |-> JInt(2), offset |-> JInt(1),
      next |-> Null, previous |-> JStr("https://api/previous")]}

Page(items, pg) ==
    JObj([items |-> JList(items), total |-> pg.total, limit |-> pg.limit,
          offset |-> pg.offset, next |-> pg.next, previous |-> pg.previous])

\* a saved-track entry of the upstream: the track under "track"
SavedEntry(track) == JObj([added_at |-> JStr("2020-01-01T00:00:00Z"), track |-> track])

\* what the upstream answers to a listing of objects of type ty: a page, a
\* page without its total, or a failure
AnswersListing(ty, wrap(_), answer) ==
    \/ \E items \in SeqsUpTo(ItemPool(ty), MaxItems), pg \in Pagings :
         answer = Page([i \in DOMAIN items |-> wrap(items[i])], pg)
    \/ \E pg \in Pagings :
         answer = JObj(Without(Page(<<wrap(JObj(Template(ty, "id1")))>>, pg).f,
                               "total"))
    \/ answer = ErrMsg("SpotifyException", "http status 429")

\* a playback the upstream reports, with the item it is playing
TPlayback(item) ==
    [device |-> JObj([id |-> JStr("dev1"), is_active |-> JBool(TRUE),
                      is_private_session |-> JBool(FALSE),
                      is_restricted |-> JBool(FALSE), name |-> JStr("phone"),
                      type |-> JStr("Smartphone"),
                      volume_percent |-> JInt(40)]),
     repeat_state |-> JStr("off"), shuffle_state |-> JBool(FALSE),
     context |-> Null, timestamp |-> JInt(1700), progress_ms |-> JInt(500),
     is_playing |-> JBool(TRUE), item |-> item,
     currently_playing_type |-> JStr("track")]

\* what the upstream answers to current_playback: nothing (no content or
\* an empty object), a playback with or without an item, one that lacks
\* one of its keys, or a failure
PlaybackAnswers ==
    {Null, JObj(<<>>), ErrMsg("SpotifyException", "http status 429")}
    \cup {JObj(Without(TPlayback(item), k)) :
            item \in {JObj(TTrack("id1")), Null,
                      JObj(Without(TTrack("id1"), "album")),
                      JObj(Without(TTrack("id1"), "id"))},
            k \in {"none", "repeat_state", "shuffle_state", "timestamp",
                   "is_playing", "currently_playing_type", "item",
                   "device", "progress_ms"}}

InitListing ==
    /\ pc = "call"
    /\ LET same(x) == x
       IN \/ \E fmt \in Range(DataFormat) :
               /\ req = [op |-> "get_user_playlists", limit |-> DefaultLimit,
                         offset |-> DefaultOffset, format |-> fmt]
               /\ AnswersListing(PLAYLIST, same, up)
          \/ \E fmt \in Range(DataFormat) :
               /\ req = [op |-> "get_saved_tracks", limit |-> DefaultLimit,
                         offset |-> DefaultOffset, market |-> "US",
                         format |-> fmt]
               /\ AnswersListing(TRACK, SavedEntry, up)
          \/ \E it \in {"tracks", "artists", "albums"} :
               /\ req = [op |-> "get_top_items", item_type |-> it,
                         time_range |-> "medium_term", limit |-> DefaultLimit,
                         offset |-> DefaultOffset]
               /\ AnswersListing(IF it = "artists" THEN ARTIST ELSE TRACK,
                                 same, up)
          \/ \E description \in {Null, JStr("text")} :
               /\ req = [op |-> "create_playlist",
                         request |-> [name |-> JStr("mix"),
                                      description |-> description,
                                      public |-> JBool(FALSE),
                                      collaborative |-> JBool(FALSE)]]
               /\ \E user \in {JObj([id |-> JStr("u1")]), JObj(<<>>),
                                ErrMsg("SpotifyException", "http status 401")},
                     result \in {JObj(TPlaylist("pl9")),
                                 JObj(Without(TPlaylist("pl9"), "id")), Null,
                                 ErrMsg("SpotifyException", "http status 403")} :
                    up = [t |-> "answers", user |-> user, result |-> result]
          \/ /\ req = [op |-> "get_current_playback"]
             /\ up \in PlaybackAnswers
    /\ ret = None
    /\ log = <<>>
    /\ calls = <<>>

\* the operation has run to its return or its raise
Finish(run) ==
    /\ ret' = run.ret
    /\ log' = log \o run.log
    /\ calls' = calls \o run.calls
    /\ pc' = "done"
    /\ UNCHANGED <<req, up>>

CallGetUserPlaylists ==
    /\ pc = "call"
    /\ req.op = "get_user_playlists"
    /\ \E run \in {GetUserPlaylists(req.limit, req.offset, req.format, up)} :
          Finish(run)

CallGetSavedTracks ==
    /\ pc = "call"
    /\ req.op = "get_saved_tracks"
    /\ \E run \in {GetSavedTracks(req.limit, req.offset, req.market,
                                   req.format, up)} :
          Finish(run)

CallGetTopItems ==
    /\ pc = "call"
    /\ req.op = "get_top_items"
    /\ \E run \in {GetTopItems(req.item_type, req.time_range, req.limit,
                                req.offset, up)} :
          Finish(run)

CallCreatePlaylist ==
    /\ pc = "call"
    /\ req.op = "create_playlist"
    /\ \E run \in {CreatePlaylist(req.request, up.user, up.result)} :
          Finish(run)

CallGetCurrentPlayback ==
    /\ pc = "call"
    /\ req.op = "get_current_playback"
    /\ \E run \in {GetCurrentPlayback(up)} : Finish(run)

NextListing ==
    \/ CallGetUserPlaylists
    \/ CallGetSavedTracks
    \/ CallGetTopItems
    \/ CallCreatePlaylist
    \/ CallGetCurrentPlayback

SpecListing == InitListing /\ [][NextListing]_vars

(***************************** search **************************************)
\* key = f"{obj_type.value}s"
KeyOf ==
    [track |-> "tracks", artist |-> "artists", album |-> "albums",
     playlist |-> "playlists", show |-> "shows", episode |-> "episodes",
     user |-> "users"]

\* the loop of search_music over request.types from position i on; acc is
\* response_data, total_results and what was logged so far, err the
\* exception that ended the loop
RECURSIVE SearchLoop(_, _, _, _, _)
SearchLoop(types, format, results, i, acc) ==
    IF i > Len(types) \/ IsErr(acc.err) THEN acc
    ELSE LET key == KeyOf[types[i]]
             items == Sub(results.f[key], "items")
             total == Sub(results.f[key], "total")
             stop(e) == [acc EXCEPT !.err = e]
         IN IF results.t # "obj" THEN stop(Err("TypeError"))
            ELSE IF key \notin DOMAIN results.f
                 THEN SearchLoop(types, format, results, i + 1, acc)
            ELSE IF IsErr(items) THEN stop(items)
            ELSE IF IsErr(total) THEN stop(total)
            ELSE IF total.t # "int" \/ items.t # "list"
                 THEN stop(Err("TypeError"))
            ELSE The({SearchLoop(types, format, results, i + 1,
                        [response_data |->
                            With(acc.response_data, key,
                                 JList([j \in DOMAIN runs |-> runs[j].value])),
                         total_results |-> acc.total_results + total.n,
                         log |-> acc.log
                                 \o Flatten([j \in DOMAIN runs |-> runs[j].log]),
                         err |-> None])
                      : runs \in {ParseAll(items.l, types[i], format)}})

\* SpotifyService.search_music
SearchMusic(request, answer) ==
    LET called == <<[api |-> "search", q |-> request.query,
                     type |-> request.types, market |-> request.market,
                     limit |-> request.limit, offset |-> request.offset]>>
        prefix == "Failed to search music"
    IN IF IsErr(answer) THEN Failed(prefix, answer, <<>>, called)
       ELSE The({
            IF IsErr(acc.err) THEN Failed(prefix, acc.err, acc.log, called)
            ELSE The({
                 IF IsErr(response)
                 THEN Failed(prefix, response, acc.log, called)
                 ELSE [ret |-> response, log |-> acc.log, calls |-> called]
                 : response \in
                     {Construct("SearchResponse",
                         Update(acc.response_data,
                                [total_results |-> JInt(acc.total_results),
                                 format_used |-> JStr(request.format)]))}})
            : acc \in {SearchLoop(request.types, request.format, answer, 1,
                                  [response_data |-> <<>>, total_results |-> 0,
                                   log |-> <<>>, err |-> None])}})

\* the totals the upstream advertises, one per object type
Advertised ==
    [track |-> 500, artist |-> 40, album |-> 7, playlist |-> 3, show |-> 2,
     episode |-> 1, user |-> 11]

\* the items of a slot of an upstream search answer: positions 1..n, of
\* which at most one (bad, 0 for none) holds an object without its id
Hits(ty, shape) ==
    [i \in 1..shape.n |->
        IF i = shape.bad /\ ty \in Parsed
        THEN JObj(Without(Template(ty, "id1"), "id"))
        ELSE JObj(Template(ty, "id1"))]

\* what the upstream answers to a search for the types: a slot for some of
\* them, every slot with items of one shape and the advertised total, or a
\* failure
AnswersSearch(types, answer) ==
    \/ \E present \in SUBSET Range(types), n \in 0..MaxHits :
         \E bad \in 0..n :
            answer =
              JObj([k \in {KeyOf[ty] : ty \in present} |->
                     LET ty == CHOOSE x \in present : KeyOf[x] = k
                     IN JObj([items |-> JList(Hits(ty, [n |-> n, bad |-> bad])),
                              total |-> JInt(Advertised[ty]),
                              limit |-> JInt(DefaultLimit),
                              offset |-> JInt(DefaultOffset)])])
    \/ answer = ErrMsg("SpotifyException", "http status 429")

\* request.types: the non-empty lists of at most MaxTypes object types
TypeLists == SeqsUpTo(Range(SpotifyObjectType), MaxTypes) \ {<<>>}

InitSearch ==
    /\ pc = "call"
    /\ \E tys \in TypeLists, fmt \in Range(DataFormat) :
         /\ req = [op |-> "search_music", query |-> "test", types |-> tys,
                   market |-> "US", limit |-> DefaultLimit,
                   offset |-> DefaultOffset, format |-> fmt]
         /\ AnswersSearch(tys, up)
    /\ ret = None
    /\ log = <<>>
    /\ calls = <<>>

CallSearchMusic ==
    /\ pc = "call"
    /\ req.op = "search_music"
    /\ \E run \in {SearchMusic(req, up)} : Finish(run)

NextSearch == CallSearchMusic

SpecSearch == InitSearch /\ [][NextSearch]_vars

(***************************** enum lookup *********************************)
\* strings are sequences of characters here, so that case can be changed
LowerOf ==
    [A |-> "a", C |-> "c", F |-> "f", I |-> "i", L |-> "l", M |-> "m",
     N |-> "n", O |-> "o", P |-> "p", R |-> "r", T |-> "t", U |-> "u",
     W |-> "w", X |-> "x"]
\* str.lower()
Lower(s) ==
    [i \in DOMAIN s |-> IF s[i] \in DOMAIN LowerOf THEN LowerOf[s[i]] ELSE s[i]]

\* the value of a DataFormat member, as characters
ValueChars(member) ==
    CASE member = MINIMAL -> <<"m", "i", "n", "i", "m", "a", "l">>
      [] member = COMPACT -> <<"c", "o", "m", "p", "a", "c", "t">>
      [] member = FULL -> <<"f", "u", "l", "l">>
      [] member = RAW -> <<"r", "a", "w">>

\* EnumType.__call__ without _missing_: the member of that very value
EnumCallExact(members, value) ==
    IF \E i \in DOMAIN members : ValueChars(members[i]) = value
    THEN JStr(members[CHOOSE i \in DOMAIN members :
                          ValueChars(members[i]) = value])
    ELSE ErrMsg("ValueError", "is not a valid member")

\* CaseInsensitiveStrEnum._missing_: the first member, in definition order,
\* whose lowered value is the lowered argument, else None
Missing(members, value) ==
    LET hit == {i \in DOMAIN members :
                    Lower(ValueChars(members[i])) = Lower(value)}
    IN IF hit = {} THEN Null
       ELSE JStr(members[CHOOSE i \in hit : \A j \in hit : i <= j])

\* EnumType.__call__: the member of that value, else what _missing_ finds,
\* else ValueError
EnumCall(members, value) ==
    IF \E i \in DOMAIN members : ValueChars(members[i]) = value
    THEN JStr(members[CHOOSE i \in DOMAIN members :
                          ValueChars(members[i]) = value])
    ELSE IF Missing(members, value) # Null THEN Missing(members, value)
    ELSE ErrMsg("ValueError", "is not a valid member")

\* the characters short strings are made of
Alphabet == {"r", "a", "w", "R", "A", "W", "x", " "}
\* the upper-case letter of a lower-case one
UpperOf(c) == CHOOSE u \in DOMAIN LowerOf : LowerOf[u] = c
\* what becomes of one character of a member's value: kept, raised to upper
\* case, or replaced
Spellings == {"lower", "upper", "other"}
Spell(c, how) ==
    CASE how = "lower" -> c
      [] how = "upper" -> UpperOf(c)
      [] how = "other" -> "x"

\* one call DataFormat(value): every string of at most MaxLen characters,
\* and every respelling of the value of a member
InitFormat ==
    /\ pc = "call"
    /\ \/ \E s \in SeqsUpTo(Alphabet, MaxLen) :
            req = [op |-> "DataFormat", value |-> s]
       \/ \E m \in Range(DataFormat) :
            \E how \in [DOMAIN ValueChars(m) -> Spellings] :
                req = [op |-> "DataFormat",
                       value |-> [i \in DOMAIN ValueChars(m) |->
                                    Spell(ValueChars(m)[i], how[i])]]
       \/ \E m \in Range(DataFormat), c \in {" ", "x"} :
            req = [op |-> "DataFormat", value |-> ValueChars(m) \o <<c>>]
    /\ up = None
    /\ ret = None
    /\ log = <<>>
    /\ calls = <<>>

CallDataFormat ==
    /\ pc = "call"
    /\ req.op = "DataFormat"
    /\ ret' = EnumCall(DataFormat, req.value)
    /\ pc' = "done"
    /\ UNCHANGED <<req, up, log, calls>>

NextFormat == CallDataFormat

SpecFormat == InitFormat /\ [][NextFormat]_vars

(***************************** claims: the normalizer **********************)
Tiers == <<MINIMAL, COMPACT, FULL>>
TierOf(format) == CHOOSE i \in DOMAIN Tiers : Tiers[i] = format
ModelClasses == {"Track", "Artist", "Album", "Playlist"}
IsModel(v) == v.t \in ModelClasses
RequiredKeys == {"id", "name", "uri", "href"}
\* the fields a schema declares Optional[...]
OptionalKeys(cls) ==
    {k \in DOMAIN Schema(cls) : Schema(cls)[k] \notin NotOptional}
\* the call is a tiered normalization of one of the four object types
Tiered == req.op = "_parse_object" /\ req.obj_type \in Parsed /\ req.format # RAW
\* the object lacks a required field: the key is absent or null
LacksRequired(obj) ==
    /\ obj.t = "obj"
    /\ \E k \in RequiredKeys : k \notin DOMAIN obj.f \/ obj.f[k] = Null
\* the object is the well-formed one without some of its optional keys
LacksOnlyOptional(obj, ty) ==
    /\ obj.t = "obj"
    /\ DOMAIN obj.f \subseteq DOMAIN Template(ty, "id1")
    /\ DOMAIN obj.f # DOMAIN Template(ty, "id1")
    /\ DOMAIN Template(ty, "id1") \ DOMAIN obj.f \subseteq OptionalKeys(ClassOf(ty))
    /\ \A k \in DOMAIN obj.f : obj.f[k] = Template(ty, "id1")[k]

\* C1: monotonic tiering. When a builder has produced a record at a tier, it
\* also produces one at every lower tier of MINIMAL < COMPACT < FULL, the
\* fields populated at the lower tier are among those populated at the
\* higher one, and each of them has the same value at both tiers.
C1_MonotonicTiering ==
    (pc = "done" /\ Tiered /\ IsModel(ret)) =>
        \A i \in 1..TierOf(req.format) :
            LET lo == Builder(req.obj, req.obj_type, Tiers[i])
            IN /\ IsModel(lo)
               /\ lo.set \subseteq ret.set
               /\ \A k \in lo.set : lo.f[k] = ret.f[k]
               /\ \A j \in 1..i :
                    LET lower == Builder(req.obj, req.obj_type, Tiers[j])
                    IN /\ IsModel(lower)
                       /\ lower.set \subseteq lo.set
                       /\ \A k \in lower.set : lower.f[k] = lo.f[k]

\* a track built at FULL: its MINIMAL and COMPACT field sets are strictly
\* smaller
C1_Witness ==
    /\ pc = "done" /\ Tiered /\ req.obj_type = TRACK /\ req.format = FULL
    /\ IsModel(ret)
    /\ Builder(req.obj, TRACK, MINIMAL).set # Builder(req.obj, TRACK, COMPACT).set
    /\ Builder(req.obj, TRACK, COMPACT).set # ret.set

\* C2: RAW is the identity. With format RAW _parse_object returns the object
\* it was given, whatever it is, and no builder failure is logged.
C2_RawIdentity ==
    (pc = "done" /\ req.op = "_parse_object" /\ req.format = RAW) =>
        ret = req.obj /\ log = <<>>

\* a track without its id goes through RAW as it is
C2_Witness ==
    /\ pc = "done" /\ req.op = "_parse_object" /\ req.format = RAW
    /\ req.obj_type = TRACK
    /\ req.obj.t = "obj" /\ "id" \notin DOMAIN req.obj.f
    /\ ret = req.obj

\* C3: a missing required field is a hard failure. When the object lacks id,
\* name, uri or href (the key absent, or null), the builder raises, the
\* exception it raises is the one _parse_object logs, and no typed record
\* comes out: nothing is built around a placeholder.
C3_MissingRequiredFails ==
    (pc = "done" /\ Tiered /\ LacksRequired(req.obj)) =>
        /\ IsErr(Builder(req.obj, req.obj_type, req.format))
        /\ Len(log) = 1
        /\ log[1].level = "warning"
        /\ log[1].e = Builder(req.obj, req.obj_type, req.format).e
        /\ ~IsModel(ret)

\* an artist without its id, at FULL
C3_Witness ==
    /\ pc = "done" /\ Tiered /\ req.obj_type = ARTIST /\ req.format = FULL
    /\ req.obj.t = "obj" /\ "id" \notin DOMAIN req.obj.f
    /\ Len(log) = 1 /\ log[1].e = "KeyError"

\* C4: a missing optional field is no failure. A well-formed object without
\* some of its optional keys is built at every tier, nothing is logged, and
\* each missing optional field of the record is null.
C4_MissingOptionalSucceeds ==
    (pc = "done" /\ Tiered /\ LacksOnlyOptional(req.obj, req.obj_type)) =>
        /\ ret.t = ClassOf(req.obj_type)
        /\ log = <<>>
        /\ \A k \in OptionalKeys(ClassOf(req.obj_type)) \ DOMAIN req.obj.f :
              ret.f[k] = Null

\* an artist without genres, at FULL, where genres is asked for
C4_Witness ==
    /\ pc = "done" /\ Tiered /\ req.obj_type = ARTIST /\ req.format = FULL
    /\ LacksOnlyOptional(req.obj, ARTIST)
    /\ "genres" \notin DOMAIN req.obj.f
    /\ ret.t = "Artist" /\ "genres" \in ret.set /\ ret.f["genres"] = Null

\* C5: local recovery. Whenever the builder raises, _parse_object returns
\* the very object it was given and raises nothing.
C5_LocalRecovery ==
    (pc = "done" /\ Tiered
        /\ IsErr(Builder(req.obj, req.obj_type, req.format))) =>
        ret = req.obj /\ ~IsErr(ret)

\* a track whose nested artist has no id: the nested builder raises
C5_Witness ==
    /\ pc = "done" /\ Tiered /\ req.obj_type = TRACK
    /\ req.obj.t = "obj" /\ RequiredKeys \subseteq DOMAIN req.obj.f
    /\ "artists" \in DOMAIN req.obj.f
    /\ req.obj.f["artists"] = JList(<<JObj(Without(TArtist("ar1"), "id"))>>)
    /\ IsErr(Builder(req.obj, TRACK, req.format))
    /\ ret = req.obj

(***************************** claims: listings ****************************)
ListingOps == {"get_user_playlists", "get_saved_tracks", "get_top_items"}
\* the object type and the format a listing parses its items with
ListedType ==
    CASE req.op = "get_user_playlists" -> PLAYLIST
      [] req.op = "get_saved_tracks" -> TRACK
      [] req.op = "get_top_items" ->
            IF req.item_type = "artists" THEN ARTIST ELSE TRACK
ListedFormat == IF req.op = "get_top_items" THEN COMPACT ELSE req.format
\* the upstream answered with a page that has all six of its keys
AnsweredPage ==
    /\ up.t = "obj"
    /\ {"items", "total", "limit", "offset", "next", "previous"}
            \subseteq DOMAIN up.f
\* the upstream objects of the page, in order
Listed ==
    [i \in DOMAIN up.f["items"].l |->
        IF req.op = "get_saved_tracks" THEN up.f["items"].l[i].f["track"]
        ELSE up.f["items"].l[i]]
LacksId(obj) == obj.t = "obj" /\ "id" \notin DOMAIN obj.f

\* C6: fault-isolating listings. When one item of an upstream page lacks its
\* id, the listing still returns a PaginatedResponse with one entry per
\* upstream item, in order: the item without id as its raw form, every
\* other one as the record its builder makes at the format of the listing
\* (the object itself under RAW).
C6_ListingIsolatesFaults ==
    (/\ pc = "done" /\ req.op \in ListingOps
     /\ req.op = "get_top_items" => req.item_type \in {"tracks", "artists"}
     /\ AnsweredPage
     /\ Cardinality({i \in DOMAIN Listed : LacksId(Listed[i])}) = 1) =>
        /\ ret.t = "PaginatedResponse"
        /\ Len(ret.f["items"].l) = Len(Listed)
        /\ \A i \in DOMAIN Listed :
              IF LacksId(Listed[i]) \/ ListedFormat = RAW
              THEN ret.f["items"].l[i] = Listed[i]
              ELSE /\ ret.f["items"].l[i]
                        = Builder(Listed[i], ListedType, ListedFormat)
                   /\ ret.f["items"].l[i].t = ClassOf(ListedType)

\* three saved tracks, the second without id, at COMPACT
C6_Witness ==
    /\ pc = "done" /\ req.op = "get_saved_tracks" /\ req.format = COMPACT
    /\ AnsweredPage /\ Len(Listed) = 3
    /\ ~LacksId(Listed[1]) /\ LacksId(Listed[2]) /\ ~LacksId(Listed[3])
    /\ ret.t = "PaginatedResponse"
    /\ ret.f["items"].l[1].t = "Track"
    /\ ret.f["items"].l[2] = Listed[2]
    /\ ret.f["items"].l[3].t = "Track"

(***************************** claims: search ******************************)
\* the search was answered with a result object
Answered == req.op = "search_music" /\ up.t = "obj"
\* the requested types the answer has a slot for
Found == {ty \in Range(req.types) : KeyOf[ty] \in DOMAIN up.f}
\* the upstream items of the slot of a type
Slot(ty) == up.f[KeyOf[ty]].f["items"].l
RECURSIVE SumTotals(_)
\* the sum of the totals the upstream advertises for a set of types
SumTotals(tys) ==
    IF tys = {} THEN 0
    ELSE LET ty == CHOOSE x \in tys : TRUE
         IN up.f[KeyOf[ty]].f["total"].n + SumTotals(tys \ {ty})

\* C7: fault-isolating search. A search at a format other than RAW whose
\* answer holds, for a requested type, an item without its id still returns
\* a SearchResponse, with every item of every such slot in it and the item
\* without id as its raw form.
C7_SearchIsolatesFaults ==
    (/\ pc = "done" /\ Answered /\ req.format # RAW
     /\ \E ty \in Found \cap Parsed :
            \E i \in DOMAIN Slot(ty) : LacksId(Slot(ty)[i])) =>
        /\ ret.t = "SearchResponse"
        /\ \A ty \in Found \cap Parsed :
              /\ Len(ret.f[KeyOf[ty]].l) = Len(Slot(ty))
              /\ \A i \in DOMAIN Slot(ty) :
                    LacksId(Slot(ty)[i]) =>
                        ret.f[KeyOf[ty]].l[i] = Slot(ty)[i]

MinimalTrackKeys == {"id", "name", "uri", "href", "external_urls", "artists"}
MinimalArtistKeys == {"id", "name", "uri", "href", "external_urls"}
\* the record was given exactly the fields of keys; every other field of
\* its schema is null, but for the type tag, which has its default
HasExactly(rec, cls, keys) ==
    /\ rec.t = cls
    /\ rec.set = keys
    /\ \A k \in DOMAIN Schema(cls) \ keys :
          rec.f[k] = IF k = "type" THEN JStr(TypeTag(cls)) ELSE Null

\* C9: a search for types=[track] at format minimal. Every track entry of
\* the SearchResponse is a Track given exactly id, name, uri, href,
\* external_urls and artists, every artist of it an Artist given exactly
\* the MINIMAL fields; duration_ms, album and popularity are not set; and
\* total_results is the total the upstream advertises for tracks (0 when
\* the answer has no tracks slot).
C9_MinimalTrackSearch ==
    (/\ pc = "done" /\ Answered
     /\ req.types = <<TRACK>> /\ req.format = MINIMAL
     /\ ret.t = "SearchResponse") =>
        /\ ret.f["total_results"] = JInt(SumTotals(Found))
        /\ ret.f["format_used"] = JStr(MINIMAL)
        /\ IF Found = {} THEN ret.f["tracks"] = Null
           ELSE /\ Len(ret.f["tracks"].l) = Len(Slot(TRACK))
                /\ \A i \in DOMAIN Slot(TRACK) :
                      LET entry == ret.f["tracks"].l[i]
                      IN /\ HasExactly(entry, "Track", MinimalTrackKeys)
                         /\ entry.f["id"] = Slot(TRACK)[i].f["id"]
                         /\ \A j \in DOMAIN entry.f["artists"].l :
                               HasExactly(entry.f["artists"].l[j], "Artist",
                                          MinimalArtistKeys)

\* two tracks found, 500 advertised
C9_Witness ==
    /\ pc = "done" /\ Answered
    /\ req.types = <<TRACK>> /\ req.format = MINIMAL
    /\ ret.t = "SearchResponse"
    /\ Found = {TRACK}
    /\ Len(ret.f["tracks"].l) = 2
    /\ Len(ret.f["tracks"].l[1].f["artists"].l) = 1
    /\ ret.f["tracks"].l[1].f["duration_ms"] = Null
    /\ ret.f["total_results"] = JInt(500)

\* C10: in a multi-type search total_results is the sum of the totals the
\* upstream advertises for the requested types, each requested type counted
\* once and a type without a slot in the answer counted as 0.
C10_TotalCountsEachTypeOnce ==
    (pc = "done" /\ Answered /\ ret.t = "SearchResponse") =>
        ret.f["total_results"] = JInt(SumTotals(Found))

(***************************** claims: format lookup ***********************)
\* s spells the value of the member, letter by letter, in either case
SpellsIgnoringCase(s, member) ==
    /\ Len(s) = Len(ValueChars(member))
    /\ \A i \in DOMAIN s :
          s[i] = ValueChars(member)[i] \/ s[i] = UpperOf(ValueChars(member)[i])

\* C8: format lookup. DataFormat(s) is the member whose value s spells
\* ignoring letter case, and for a string that spells no member's value it
\* raises ValueError: it never answers with a default member.
C8_FormatLookup ==
    (pc = "done" /\ req.op = "DataFormat") =>
        /\ \A m \in Range(DataFormat) :
              SpellsIgnoringCase(req.value, m) => ret = JStr(m)
        /\ (\A m \in Range(DataFormat) : ~SpellsIgnoringCase(req.value, m))
              => IsErr(ret) /\ ret.e = "ValueError"

\* "CoMpAcT" resolves to COMPACT
C8_Witness ==
    /\ pc = "done" /\ req.op = "DataFormat"
    /\ req.value = <<"C", "o", "M", "p", "A", "c", "T">>
    /\ ret = JStr(COMPACT)

(***************************** the tools: context and errors ***************)
\* fastapi's HTTPException; str() of it is "<status_code>: <detail>"
HTTPException(status, detail) ==
    [t |-> "error", e |-> "HTTPException", status |-> status,
     detail |-> detail, msg |-> <<status, detail>>]

\* a header value is a sequence of pieces; Bearer is the piece "Bearer "
Bearer == "Bearer "
\* str.replace("Bearer ", ""): every occurrence is removed
ReplaceBearer(h) ==
    LET kept(piece) == piece # Bearer IN SelectSeq(h, kept)

\* dependencies.get_access_token: the token of the Authorization header of
\* the request of the context, or HTTPException 401
get_access_token(ctx) ==
    IF ctx = Null \/ ctx.request_context = Null
    THEN HTTPException(401, "No request context available")
    ELSE LET headers == ctx.request_context.headers
             auth_header == IF "Authorization" \in DOMAIN headers
                            THEN headers["Authorization"] ELSE <<>>
         IN IF auth_header = <<>> \/ Head(auth_header) # Bearer
            THEN HTTPException(401, "Missing or invalid Authorization header")
            ELSE JStr(ReplaceBearer(auth_header))

\* dependencies.get_spotify_service: SpotifyService(access_token), which
\* stores the token and builds the client without a request
get_spotify_service(access_token) ==
    IF IsErr(access_token) THEN access_token
    ELSE [t |-> "SpotifyService", access_token |-> access_token.s]

\* the except clauses of a tool: ValueError (pydantic's ValidationError is
\* one) gives 400, any other exception 500; both are logged as errors
ToolFailed(prefix, e, logged, called) ==
    IF e.e \in {"ValueError", "ValidationError"}
    THEN [ret |-> HTTPException(400, <<"Invalid parameter", StrOf(e)>>),
          log |-> logged \o <<[level |-> "error",
                               msg |-> <<"Parameter validation error",
                                         StrOf(e)>>]>>,
          calls |-> called]
    ELSE [ret |-> HTTPException(500, <<prefix, StrOf(e)>>),
          log |-> logged \o <<[level |-> "error", msg |-> <<prefix, StrOf(e)>>]>>,
          calls |-> called]

\* json.dumps(...) of a result: a string, kept as the value it renders
Dumps(v) == [t |-> "json", v |-> v]

RECURSIVE ModelDump(_)
\* x.model_dump() if hasattr(x, 'model_dump') else x: a model instance
\* becomes the dict of its fields, models nested in it likewise
ModelDump(v) ==
    IF "set" \in DOMAIN v
    THEN JObj([k \in DOMAIN v.f |-> ModelDump(v.f[k])])
    ELSE IF v.t = "list"
    THEN JList([i \in DOMAIN v.l |-> ModelDump(v.l[i])])
    ELSE v

\* the end of a tool after its service call: the exception of the service
\* goes to the except clauses, its result is dumped
ToolReturn(prefix, run) ==
    IF IsErr(run.ret) THEN ToolFailed(prefix, run.ret, run.log, run.calls)
    ELSE [ret |-> Dumps(ModelDump(run.ret)), log |-> run.log,
          calls |-> run.calls]

\* a service method that hands the answer of the client through:
\* logger.error(what) and raise when the client raised
ClientCall(called, answer, what) ==
    [ret |-> answer,
     log |-> IF IsErr(answer)
             THEN <<[level |-> "error", msg |-> <<what, StrOf(answer)>>]>>
             ELSE <<>>,
     calls |-> <<called>>]

\* the request contexts of a tool call: none, one without a request, and
\* requests with and without an Authorization header
Contexts ==
    {Null, [request_context |-> Null],
     [request_context |-> [headers |-> <<>>]]}
    \cup {[request_context |-> [headers |-> [Authorization |-> h]]] :
            h \in {<<>>, <<Bearer, "tok">>, <<"Basic ", "tok">>,
                   <<"bearer ", "tok">>, <<Bearer>>, <<"tok">>}}

(***************************** top items ***********************************)
\* str.lower() of the words given as time_range
LowerWord ==
    [short_term |-> "short_term", medium_term |-> "medium_term",
     long_term |-> "long_term", MEDIUM_TERM |-> "medium_term",
     Long_Term |-> "long_term", weekly |-> "weekly", WEEKLY |-> "weekly"]
TimeRange == <<"short_term", "medium_term", "long_term">>
\* TimeRange(value): the member of that value, else what _missing_ finds by
\* lowered value, else ValueError
TimeRangeCall(value) ==
    IF LowerWord[value] \in Range(TimeRange) THEN JStr(LowerWord[value])
    ELSE ErrMsg("ValueError", "is not a valid TimeRange")

\* the tool spotify_get_top_items
spotify_get_top_items(ctx, type, time_range, limit, offset, answer) ==
    LET prefix == <<"Failed to get top ", type>>
        service == get_spotify_service(get_access_token(ctx))
        time_range_enum == TimeRangeCall(LowerWord[time_range])
    IN IF IsErr(service) THEN ToolFailed(prefix, service, <<>>, <<>>)
       ELSE IF type \notin {"artists", "tracks"}
            THEN ToolFailed(prefix,
                            ErrMsg("ValueError",
                                   "Type must be 'artists' or 'tracks'"),
                            <<>>, <<>>)
       ELSE IF IsErr(time_range_enum)
            THEN ToolFailed(prefix, time_range_enum, <<>>, <<>>)
       ELSE The({ToolReturn(prefix, run)
                 : run \in {GetTopItems(type, time_range_enum.s, limit,
                                        offset, answer)}})

\* one call of get_top_items, of the service or through the tool
TopItemsCalls ==
    LET same(x) == x
        ItemTypes == {"tracks", "artists", "albums", "Tracks", ""}
    IN \/ \E it \in ItemTypes, tr \in Range(TimeRange) :
            /\ req = [op |-> "get_top_items", item_type |-> it,
                      time_range |-> tr, limit |-> DefaultLimit,
                      offset |-> DefaultOffset]
            /\ AnswersListing(IF it = "artists" THEN ARTIST ELSE TRACK,
                              same, up)
       \/ \E ctx \in Contexts, it \in ItemTypes,
             tr \in {"medium_term", "Long_Term", "WEEKLY"} :
            /\ req = [op |-> "spotify_get_top_items", ctx |-> ctx,
                      type |-> it, time_range |-> tr,
                      limit |-> DefaultLimit, offset |-> DefaultOffset]
            /\ AnswersListing(IF it = "artists" THEN ARTIST ELSE TRACK,
                              same, up)

CallSpotifyGetTopItems ==
    /\ pc = "call"
    /\ req.op = "spotify_get_top_items"
    /\ \E run \in {spotify_get_top_items(req.ctx, req.type, req.time_range,
                                          req.limit, req.offset, up)} :
          Finish(run)

(***************************** batch tools *********************************)
\* if len(track_ids) > 100, if len(artist_ids) > 50, if len(track_uris) > 100
MaxTrackIds == 100
MaxArtistIds == 50
MaxTrackUris == 100

\* SpotifyService.get_track_audio_features: one AudioFeatures per result
\* of the client that is not None
GetTrackAudioFeatures(track_ids, answer) ==
    LET prefix == "Failed to get audio features"
        \* the list handed to the client is recorded as ids, whatever the
        \* client names its parameter
        called == <<[api |-> "audio_features", ids |-> track_ids]>>
    IN IF IsErr(answer) THEN Failed(prefix, answer, <<>>, called)
       ELSE IF answer.t # "list"
            THEN Failed(prefix, Err("TypeError"), <<>>, called)
       ELSE The({IF IsErr(features)
                 THEN Failed(prefix, features, <<>>, called)
                 ELSE [ret |-> features, log |-> <<>>, calls |-> called]
                 : features \in
                     {LET results == SelectSeq(answer.l, Truthy)
                      IN Collect([i \in DOMAIN results |->
                            IF results[i].t = "obj"
                            THEN Construct("AudioFeatures", results[i].f)
                            ELSE Err("TypeError")])}})

\* the tool taking more than 100 ids by their first 100
spotify_get_track_audio_features_truncating(ctx, track_ids, answer) ==
    LET prefix == "Failed to get audio features"
        service == get_spotify_service(get_access_token(ctx))
    IN IF IsErr(service) THEN ToolFailed(prefix, service, <<>>, <<>>)
       ELSE The({ToolReturn(prefix, run)
                 : run \in {GetTrackAudioFeatures(
                               SubSeq(track_ids, 1,
                                      IF Len(track_ids) > MaxTrackIds
                                      THEN MaxTrackIds ELSE Len(track_ids)),
                               answer)}})

\* the tool spotify_get_track_audio_features
spotify_get_track_audio_features(ctx, track_ids, answer) ==
    LET prefix == "Failed to get audio features"
        service == get_spotify_service(get_access_token(ctx))
    IN IF IsErr(service) THEN ToolFailed(prefix, service, <<>>, <<>>)
       ELSE IF Len(track_ids) > MaxTrackIds
            THEN ToolFailed(prefix,
                    ErrMsg("ValueError",
                           "Maximum 100 track IDs allowed per request"),
                    <<>>, <<>>)
       ELSE The({ToolReturn(prefix, run)
                 : run \in {GetTrackAudioFeatures(track_ids, answer)}})

\* the tool spotify_get_artist_info
spotify_get_artist_info(ctx, artist_ids, format, answer) ==
    LET prefix == "Failed to get artist info"
        service == get_spotify_service(get_access_token(ctx))
        data_format == EnumCall(DataFormat, Lower(format))
        results == ClientCall([api |-> "artists", ids |-> artist_ids],
                              answer, "Error getting artists")
        artists == Sub(answer, "artists")
    IN IF IsErr(service) THEN ToolFailed(prefix, service, <<>>, <<>>)
       ELSE IF Len(artist_ids) > MaxArtistIds
            THEN ToolFailed(prefix,
                    ErrMsg("ValueError",
                           "Maximum 50 artist IDs allowed per request"),
                    <<>>, <<>>)
       ELSE IF IsErr(data_format)
            THEN ToolFailed(prefix, data_format, <<>>, <<>>)
       ELSE IF IsErr(answer) \/ data_format.s = RAW
            THEN ToolReturn(prefix, results)
       ELSE IF IsErr(artists)
            THEN ToolFailed(prefix, artists, <<>>, results.calls)
       ELSE IF artists.t # "list"
            THEN ToolFailed(prefix, Err("TypeError"), <<>>, results.calls)
       ELSE The({[ret |-> Dumps(JList([i \in DOMAIN runs |->
                                         ModelDump(runs[i].value)])),
                  log |-> Flatten([i \in DOMAIN runs |-> runs[i].log]),
                  calls |-> results.calls]
                 : runs \in {ParseAll(artists.l, ARTIST, data_format.s)}})

\* the tool spotify_add_tracks_to_playlist
spotify_add_tracks_to_playlist(ctx, playlist_id, track_uris, position, answer) ==
    LET prefix == "Failed to add tracks to playlist"
        service == get_spotify_service(get_access_token(ctx))
        result == ClientCall([api |-> "playlist_add_items",
                              playlist_id |-> playlist_id,
                              ids |-> track_uris, position |-> position],
                             answer, "Error adding tracks to playlist")
        snapshot_id == Sub(answer, "snapshot_id")
    IN IF IsErr(service) THEN ToolFailed(prefix, service, <<>>, <<>>)
       ELSE IF Len(track_uris) > MaxTrackUris
            THEN ToolFailed(prefix,
                    ErrMsg("ValueError",
                           "Maximum 100 track URIs allowed per request"),
                    <<>>, <<>>)
       ELSE IF IsErr(answer) THEN ToolReturn(prefix, result)
       ELSE IF IsErr(snapshot_id)
            THEN ToolFailed(prefix, snapshot_id, <<>>, result.calls)
       ELSE [ret |-> Dumps(JObj([success |-> JBool(TRUE),
                                 message |->
                                    JStr(<<"Successfully added tracks",
                                           Len(track_uris)>>),
                                 snapshot_id |-> snapshot_id,
                                 track_uris |-> JList(track_uris)])),
             log |-> <<>>, calls |-> result.calls]

\* the audio features of a track, as the Web API documents them
TAudioFeatures ==
    [id |-> JStr("id1"), danceability |-> JInt(1), energy |-> JInt(1),
     key |-> JInt(5), loudness |-> JInt(-6), mode |-> JInt(1),
     speechiness |-> JInt(0), acousticness |-> JInt(0),
     instrumentalness |-> JInt(0), liveness |-> JInt(0),
     valence |-> JInt(1), tempo |-> JInt(120), duration_ms |-> JInt(1000),
     time_signature |-> JInt(4), type |-> JStr("audio_features")]

\* the ids 1..n, as a list
Ids(n) == [i \in 1..n |-> i]
\* the format names given to the tools
Formats ==
    {<<"r", "a", "w">>, <<"R", "a", "w">>, <<"f", "u", "l", "l">>,
     <<"C", "O", "M", "P", "A", "C", "T">>, <<"x">>, <<"r", "a", "w", " ">>}

\* one call of a batch tool with a list around its maximum length
BatchCalls ==
    \E ctx \in Contexts, over \in -1..MaxOver :
       \/ /\ \E n \in {0, 1, MaxTrackIds + over} :
                req = [op |-> "spotify_get_track_audio_features",
                       ctx |-> ctx, track_ids |-> Ids(n)]
          /\ up \in {JList(<<JObj(TAudioFeatures), Null>>), JList(<<>>),
                      JList(<<JObj(Without(TAudioFeatures, "id"))>>), Null,
                      ErrMsg("SpotifyException", "http status 429")}
       \/ /\ \E n \in {0, 1, MaxArtistIds + over}, fmt \in Formats :
                req = [op |-> "spotify_get_artist_info", ctx |-> ctx,
                       artist_ids |-> Ids(n), format |-> fmt]
          /\ up \in {JObj([artists |->
                             JList(<<JObj(TArtist("id1")),
                                     JObj(Without(TArtist("id2"), "id"))>>)]),
                      JObj(<<>>),
                      ErrMsg("SpotifyException", "http status 429"),
                      ErrMsg("ValueError", "Invalid header value")}
       \/ /\ \E n \in {0, 1, MaxTrackUris + over} :
                req = [op |-> "spotify_add_tracks_to_playlist", ctx |-> ctx,
                       playlist_id |-> "pl1", track_uris |-> Ids(n),
                       position |-> Null]
          /\ up \in {JObj([snapshot_id |-> JStr("snap")]), JObj(<<>>),
                      ErrMsg("SpotifyException", "http status 403")}

CallSpotifyGetTrackAudioFeatures ==
    /\ pc = "call"
    /\ req.op = "spotify_get_track_audio_features"
    /\ \E run \in {spotify_get_track_audio_features(req.ctx, req.track_ids,
                                                     up)} :
          Finish(run)

CallSpotifyGetArtistInfo ==
    /\ pc = "call"
    /\ req.op = "spotify_get_artist_info"
    /\ \E run \in {spotify_get_artist_info(req.ctx, req.artist_ids,
                                            req.format, up)} :
          Finish(run)

CallSpotifyAddTracksToPlaylist ==
    /\ pc = "call"
    /\ req.op = "spotify_add_tracks_to_playlist"
    /\ \E run \in {spotify_add_tracks_to_playlist(
                       req.ctx, req.playlist_id, req.track_uris,
                       req.position, up)} :
          Finish(run)

(***************************** identifier lists ***************************)
\* the names the module dependencies.py binds: its imports and its three
\* functions
dependencies ==
    {"HTTPException", "Depends", "Context", "Request", "SpotifyTokenInfo",
     "extract_bearer_token", "spotify_token_validator", "SpotifyService",
     "get_access_token", "get_validated_token", "get_spotify_service"}

\* from <module> import <names>: ImportError when the module does not bind
\* every one of the names
ImportFrom(module, names) ==
    IF names \subseteq module THEN None
    ELSE ErrMsg("ImportError",
                <<"cannot import name", CHOOSE n \in names \ module : TRUE>>)

\* the import statement of tools/library.py that its three id-list tools
\* need
library ==
    ImportFrom(dependencies,
               {"get_access_token", "get_spotify_service",
                "parse_comma_separated_list"})

RECURSIVE SplitOn(_, _)
\* str.split(c) of a string of characters
SplitOn(s, c) ==
    IF \A i \in DOMAIN s : s[i] # c THEN <<s>>
    ELSE LET i == CHOOSE j \in DOMAIN s :
                    s[j] = c /\ \A k \in 1..(j - 1) : s[k] # c
         IN <<SubSeq(s, 1, i - 1)>> \o SplitOn(SubSeq(s, i + 1, Len(s)), c)

RECURSIVE Strip(_)
\* str.strip() of a string of characters
Strip(s) ==
    IF s # <<>> /\ Head(s) = " " THEN Strip(Tail(s))
    ELSE IF s # <<>> /\ s[Len(s)] = " " THEN Strip(SubSeq(s, 1, Len(s) - 1))
    ELSE s

\* parse_comma_separated_list, which no module defines: the string split
\* on commas, each element trimmed, the empty ones left out
parse_comma_separated_list(value) ==
    LET parts == SplitOn(value, ",")
        named(x) == x # <<>>
    IN SelectSeq([i \in DOMAIN parts |-> Strip(parts[i])], named)

\* if len(track_ids_list) > 50
MaxIds == 50

\* the body shared by spotify_save_tracks, spotify_remove_saved_tracks and
\* spotify_follow_artists; the module that defines them raises ImportError
\* when it is imported
IdListTool(ctx, ids, answer, api, what, noun) ==
    LET prefix == <<"Failed to", what>>
        service == get_spotify_service(get_access_token(ctx))
        ids_list == parse_comma_separated_list(ids)
    IN IF IsErr(library) THEN [ret |-> library, log |-> <<>>, calls |-> <<>>]
       ELSE IF IsErr(service) THEN ToolFailed(prefix, service, <<>>, <<>>)
       ELSE IF ids_list = <<>>
            THEN ToolFailed(prefix,
                    ErrMsg("ValueError", <<"At least one ID is required", noun>>),
                    <<>>, <<>>)
       ELSE IF Len(ids_list) > MaxIds
            THEN ToolFailed(prefix,
                    ErrMsg("ValueError", <<"Maximum 50 IDs allowed", noun>>),
                    <<>>, <<>>)
       ELSE The({IF IsErr(run.ret)
                 THEN ToolFailed(prefix, run.ret, run.log, run.calls)
                 ELSE [ret |-> Dumps(JObj([success |-> JBool(TRUE),
                                           ids |-> JList(ids_list)])),
                       log |-> <<>>, calls |-> run.calls]
                 : run \in {ClientCall([api |-> api, ids |-> ids_list],
                                       answer, <<"Error", what>>)}})

\* the tool spotify_save_tracks
spotify_save_tracks(ctx, track_ids, answer) ==
    IdListTool(ctx, track_ids, answer, "current_user_saved_tracks_add",
               "save tracks", "track")

\* the tool spotify_remove_saved_tracks
spotify_remove_saved_tracks(ctx, track_ids, answer) ==
    IdListTool(ctx, track_ids, answer, "current_user_saved_tracks_delete",
               "remove saved tracks", "track")

\* the tool spotify_follow_artists
spotify_follow_artists(ctx, artist_ids, answer) ==
    IdListTool(ctx, artist_ids, answer, "user_follow_artists",
               "follow artists", "artist")

\* n ids "a" joined by commas
Csv(n) == [i \in 1..(2 * n - 1) |-> IF i % 2 = 1 THEN "a" ELSE ","]

\* one call of an id-list tool
IdListCalls ==
    \E ctx \in Contexts,
       op \in {"spotify_save_tracks", "spotify_remove_saved_tracks",
               "spotify_follow_artists"},
       ids \in {<<>>, <<"a">>, <<" ", "a", " ", ",", "b", " ">>,
                <<",">>, <<" ">>, <<"a", ",", ",", "b">>,
                Csv(MaxIds), Csv(MaxIds + 1)} :
        /\ req = [op |-> op, ctx |-> ctx, ids |-> ids]
        /\ up \in {Null, ErrMsg("SpotifyException", "http status 403")}

CallSpotifySaveTracks ==
    /\ pc = "call"
    /\ req.op = "spotify_save_tracks"
    /\ \E run \in {spotify_save_tracks(req.ctx, req.ids, up)} : Finish(run)

CallSpotifyRemoveSavedTracks ==
    /\ pc = "call"
    /\ req.op = "spotify_remove_saved_tracks"
    /\ \E run \in {spotify_remove_saved_tracks(req.ctx, req.ids, up)} :
          Finish(run)

CallSpotifyFollowArtists ==
    /\ pc = "call"
    /\ req.op = "spotify_follow_artists"
    /\ \E run \in {spotify_follow_artists(req.ctx, req.ids, up)} : Finish(run)

(***************************** playback controls **************************)
\* the tool spotify_seek_to_position
spotify_seek_to_position(ctx, position_ms, device_id, answer) ==
    LET prefix == "Failed to seek to position"
        service == get_spotify_service(get_access_token(ctx))
        result == ClientCall([api |-> "seek_track",
                              position_ms |-> position_ms,
                              device_id |-> device_id],
                             answer, "Error seeking track")
    IN IF IsErr(service) THEN ToolFailed(prefix, service, <<>>, <<>>)
       ELSE IF position_ms < 0
            THEN ToolFailed(prefix,
                    ErrMsg("ValueError", "Position must be non-negative"),
                    <<>>, <<>>)
       ELSE IF IsErr(answer) THEN ToolReturn(prefix, result)
       ELSE [ret |-> Dumps(JObj([success |-> JBool(TRUE),
                                 message |-> JStr(<<"Seeked to position",
                                                    position_ms>>),
                                 position_ms |-> JInt(position_ms)])),
             log |-> <<>>, calls |-> result.calls]

\* if not 0 <= volume_percent <= 100
MaxVolume == 100

\* the tool spotify_set_volume with the upper bound left out of the range
spotify_set_volume_below_max(ctx, volume_percent, device_id, answer) ==
    LET prefix == "Failed to set volume"
        service == get_spotify_service(get_access_token(ctx))
        result == ClientCall([api |-> "volume",
                              volume_percent |-> volume_percent,
                              device_id |-> device_id],
                             answer, "Error setting volume")
    IN IF IsErr(service) THEN ToolFailed(prefix, service, <<>>, <<>>)
       ELSE IF ~(0 <= volume_percent /\ volume_percent < MaxVolume)
            THEN ToolFailed(prefix,
                    ErrMsg("ValueError", "Volume must be between 0 and 100"),
                    <<>>, <<>>)
       ELSE IF IsErr(answer) THEN ToolReturn(prefix, result)
       ELSE [ret |-> Dumps(JObj([success |-> JBool(TRUE),
                                 message |-> JStr(<<"Volume set to",
                                                    volume_percent>>),
                                 volume_percent |-> JInt(volume_percent)])),
             log |-> <<>>, calls |-> result.calls]

\* the tool spotify_set_volume
spotify_set_volume(ctx, volume_percent, device_id, answer) ==
    LET prefix == "Failed to set volume"
        service == get_spotify_service(get_access_token(ctx))
        result == ClientCall([api |-> "volume",
                              volume_percent |-> volume_percent,
                              device_id |-> device_id],
                             answer, "Error setting volume")
    IN IF IsErr(service) THEN ToolFailed(prefix, service, <<>>, <<>>)
       ELSE IF ~(0 <= volume_percent /\ volume_percent <= MaxVolume)
            THEN ToolFailed(prefix,
                    ErrMsg("ValueError", "Volume must be between 0 and 100"),
                    <<>>, <<>>)
       ELSE IF IsErr(answer) THEN ToolReturn(prefix, result)
       ELSE [ret |-> Dumps(JObj([success |-> JBool(TRUE),
                                 message |-> JStr(<<"Volume set to",
                                                    volume_percent>>),
                                 volume_percent |-> JInt(volume_percent)])),
             log |-> <<>>, calls |-> result.calls]

\* one call of a playback control
PlaybackCalls ==
    \E ctx \in Contexts, device_id \in {Null, JStr("dev1")}, over \in -1..MaxOver :
       /\ \/ \E position_ms \in {-MaxOver, over, 30000} :
                req = [op |-> "spotify_seek_to_position", ctx |-> ctx,
                       position_ms |-> position_ms, device_id |-> device_id]
          \/ \E volume_percent \in {-MaxOver, 0, 1, 50, MaxVolume + over} :
                req = [op |-> "spotify_set_volume", ctx |-> ctx,
                       volume_percent |-> volume_percent,
                       device_id |-> device_id]
       /\ up \in {Null, ErrMsg("SpotifyException", "http status 404"),
                  ErrMsg("ValueError", "Invalid header value")}

CallSpotifySeekToPosition ==
    /\ pc = "call"
    /\ req.op = "spotify_seek_to_position"
    /\ \E run \in {spotify_seek_to_position(req.ctx, req.position_ms,
                                             req.device_id, up)} :
          Finish(run)

CallSpotifySetVolume ==
    /\ pc = "call"
    /\ req.op = "spotify_set_volume"
    /\ \E run \in {spotify_set_volume(req.ctx, req.volume_percent,
                                       req.device_id, up)} :
          Finish(run)

(***************************** start of playback ***************************)
\* kwargs = {}; if v: kwargs[k] = v, for the keys in order
Supplied(args, keys) ==
    [k \in {keys[i] : i \in {j \in DOMAIN keys : Truthy(args[keys[j]])}} |->
        args[k]]

\* SpotifyService.start_playback: the arguments that are truthy go to the
\* client; the exception of the client is logged and raised again
StartPlayback(args, answer) ==
    ClientCall([api |-> "start_playback",
                kwargs |-> Supplied(args, <<"device_id", "context_uri", "uris",
                                            "offset", "position_ms">>)],
               answer, "Error starting playback")

\* the tool spotify_start_playback
spotify_start_playback(ctx, device_id, context_uri, uris, offset_position, offset_uri, position_ms, answer) ==
    LET prefix == "Failed to start playback"
        service == get_spotify_service(get_access_token(ctx))
        failed(e, logged, called) ==
            [ret |-> HTTPException(500, <<prefix, StrOf(e)>>),
             log |-> logged \o <<[level |-> "error",
                                  msg |-> <<"Error starting playback",
                                            StrOf(e)>>]>>,
             calls |-> called]
        kwargs ==
            Update(Supplied([device_id |-> device_id,
                             context_uri |-> context_uri, uris |-> uris,
                             position_ms |-> position_ms],
                            <<"device_id", "context_uri", "uris",
                              "position_ms">>),
                   IF offset_position # Null
                   THEN [offset |-> JObj([position |-> offset_position])]
                   ELSE IF Truthy(offset_uri)
                   THEN [offset |-> JObj([uri |-> offset_uri])]
                   ELSE <<>>)
        \* start_playback(**kwargs): what kwargs lacks is None
        args == [k \in {"device_id", "context_uri", "uris", "offset",
                        "position_ms"} |->
                    IF k \in DOMAIN kwargs THEN kwargs[k] ELSE Null]
    IN IF IsErr(service) THEN failed(service, <<>>, <<>>)
       ELSE The({IF IsErr(run.ret) THEN failed(run.ret, run.log, run.calls)
                 ELSE [ret |-> Dumps(JObj(
                                 [success |-> JBool(TRUE),
                                  message |->
                                      JStr("Playback started successfully"),
                                  parameters |-> JObj(kwargs)])),
                       log |-> run.log, calls |-> run.calls]
                 : run \in {StartPlayback(args, answer)}})

\* one call of spotify_start_playback
StartCalls ==
    \E ctx \in {[request_context |-> [headers |-> <<>>]],
                [request_context |->
                   [headers |-> [Authorization |-> <<Bearer, "tok">>]]]},
       device_id \in {Null, JStr("dev1")},
       context_uri \in {Null, JStr("spotify:album:1")},
       uris \in {Null, JList(<<>>), JList(<<JStr("spotify:track:1")>>)},
       offset_position \in {Null, JInt(0), JInt(2)},
       offset_uri \in {Null, JStr("spotify:track:1")},
       position_ms \in {Null, JInt(0), JInt(5000)} :
       /\ req = [op |-> "spotify_start_playback", ctx |-> ctx,
                 device_id |-> device_id, context_uri |-> context_uri,
                 uris |-> uris, offset_position |-> offset_position,
                 offset_uri |-> offset_uri, position_ms |-> position_ms]
       /\ up \in {Null, ErrMsg("SpotifyException", "http status 404")}

CallSpotifyStartPlayback ==
    /\ pc = "call"
    /\ req.op = "spotify_start_playback"
    /\ \E run \in {spotify_start_playback(req.ctx, req.device_id,
                      req.context_uri, req.uris, req.offset_position,
                      req.offset_uri, req.position_ms, up)} :
          Finish(run)

(***************************** tools with a format ************************)
\* the end of a tool that lists: the picked entries are parsed in order up
\* to the first one the pick raised on, the models are dumped, and the
\* response is the items with the keys copied from page
ToolItems(prefix, raws, obj_type, format, page, keys, called) ==
    The({The({The({
        IF n < Len(raws) THEN ToolFailed(prefix, raws[n + 1], logged, called)
        ELSE IF IsErr(page) THEN ToolFailed(prefix, page, logged, called)
        ELSE IF IsErr(paging) THEN ToolFailed(prefix, paging, logged, called)
        ELSE [ret |-> Dumps(JObj([k \in {"items"} \cup Range(keys) |->
                        IF k = "items"
                        THEN JList([i \in DOMAIN runs |->
                                       ModelDump(runs[i].value)])
                        ELSE page.f[k]])),
              log |-> logged, calls |-> called]
        : logged \in {Flatten([i \in DOMAIN runs |-> runs[i].log])},
          paging \in {IF IsErr(page) THEN page ELSE Subscript(page, keys)}})
      : runs \in {ParseAll(SubSeq(raws, 1, n), obj_type, format)}})
    : n \in {IF \A i \in DOMAIN raws : ~IsErr(raws[i]) THEN Len(raws)
             ELSE (CHOOSE i \in DOMAIN raws :
                     /\ IsErr(raws[i])
                     /\ \A j \in 1..(i - 1) : ~IsErr(raws[j])) - 1}})

\* "total", "limit", "offset", "next", "previous" of a page
PageKeys == <<"total", "limit", "offset", "next", "previous">>

\* for x in d[k]: the list under the key, or the exception of reaching it
ListAt(d, k) ==
    The({IF IsErr(v) THEN v
         ELSE IF v.t # "list" THEN Err("TypeError")
         ELSE v
         : v \in {Sub(d, k)}})

\* SearchRequest(...): limit in 1..50 and offset >= 0, else ValidationError
SearchRequest(query, types, market, limit, offset, format) ==
    IF limit < 1 \/ limit > 50 \/ offset < 0
    THEN ErrMsg("ValidationError", "SearchRequest")
    ELSE [t |-> "SearchRequest", query |-> query, types |-> types,
          market |-> market, limit |-> limit, offset |-> offset,
          format |-> format]

\* str.lower() of the words given as object types
LowerType ==
    [track |-> "track", Artist |-> "artist", ALBUM |-> "album",
     shows |-> "shows"]

\* the tool spotify_search_music
spotify_search_music(ctx, query, types, market, limit, offset, format, answer) ==
    LET prefix == "Failed to search music"
        service == get_spotify_service(get_access_token(ctx))
        data_format == EnumCall(DataFormat, Lower(format))
        \* SpotifyObjectType(t.lower()) raised for one of the types
        invalid == \E i \in DOMAIN types :
                      LowerType[types[i]] \notin Range(SpotifyObjectType)
        search_types == IF types = <<>> THEN <<TRACK>>
                        ELSE [i \in DOMAIN types |-> LowerType[types[i]]]
    IN IF IsErr(service) THEN ToolFailed(prefix, service, <<>>, <<>>)
       ELSE IF IsErr(data_format)
            THEN ToolFailed(prefix, data_format, <<>>, <<>>)
       ELSE IF invalid
            THEN ToolFailed(prefix,
                    ErrMsg("ValueError", "is not a valid SpotifyObjectType"),
                    <<>>, <<>>)
       ELSE The({IF IsErr(request)
                 THEN ToolFailed(prefix, request, <<>>, <<>>)
                 ELSE The({ToolReturn(prefix, run)
                           : run \in {SearchMusic(request, answer)}})
                 : request \in {SearchRequest(query, search_types, market,
                                              limit, offset, data_format.s)}})

\* the tool spotify_get_saved_tracks
spotify_get_saved_tracks(ctx, limit, offset, market, format, answer) ==
    LET prefix == "Failed to get saved tracks"
        service == get_spotify_service(get_access_token(ctx))
        data_format == EnumCall(DataFormat, Lower(format))
    IN IF IsErr(service) THEN ToolFailed(prefix, service, <<>>, <<>>)
       ELSE IF IsErr(data_format)
            THEN ToolFailed(prefix, data_format, <<>>, <<>>)
       ELSE The({ToolReturn(prefix, run)
                 : run \in {GetSavedTracks(limit, offset, market,
                                           data_format.s, answer)}})

\* the tool spotify_get_user_playlists
spotify_get_user_playlists(ctx, limit, offset, format, answer) ==
    LET prefix == "Failed to get user playlists"
        service == get_spotify_service(get_access_token(ctx))
        data_format == EnumCall(DataFormat, Lower(format))
    IN IF IsErr(service) THEN ToolFailed(prefix, service, <<>>, <<>>)
       ELSE IF IsErr(data_format)
            THEN ToolFailed(prefix, data_format, <<>>, <<>>)
       ELSE The({ToolReturn(prefix, run)
                 : run \in {GetUserPlaylists(limit, offset, data_format.s,
                                             answer)}})

\* the tool spotify_get_saved_albums looking at the format after its call
spotify_get_saved_albums_format_after(ctx, limit, offset, market, format, answer) ==
    LET prefix == "Failed to get saved albums"
        service == get_spotify_service(get_access_token(ctx))
        data_format == EnumCall(DataFormat, Lower(format))
        results == ClientCall([api |-> "current_user_saved_albums",
                               limit |-> limit, offset |-> offset,
                               market |-> market],
                              answer, "Error getting saved albums")
        items == ListAt(answer, "items")
    IN IF IsErr(service) THEN ToolFailed(prefix, service, <<>>, <<>>)
       ELSE IF IsErr(answer) THEN ToolReturn(prefix, results)
       ELSE IF IsErr(data_format)
            THEN ToolFailed(prefix, data_format, <<>>, results.calls)
       ELSE IF data_format.s = RAW THEN ToolReturn(prefix, results)
       ELSE IF IsErr(items) THEN ToolFailed(prefix, items, <<>>, results.calls)
       ELSE ToolItems(prefix, [i \in DOMAIN items.l |-> Sub(items.l[i], "album")],
                      ALBUM, data_format.s, answer, PageKeys, results.calls)

\* the tool spotify_get_saved_albums
spotify_get_saved_albums(ctx, limit, offset, market, format, answer) ==
    LET prefix == "Failed to get saved albums"
        service == get_spotify_service(get_access_token(ctx))
        data_format == EnumCall(DataFormat, Lower(format))
        results == ClientCall([api |-> "current_user_saved_albums",
                               limit |-> limit, offset |-> offset,
                               market |-> market],
                              answer, "Error getting saved albums")
        items == ListAt(answer, "items")
    IN IF IsErr(service) THEN ToolFailed(prefix, service, <<>>, <<>>)
       ELSE IF IsErr(data_format)
            THEN ToolFailed(prefix, data_format, <<>>, <<>>)
       ELSE IF IsErr(answer) \/ data_format.s = RAW
            THEN ToolReturn(prefix, results)
       ELSE IF IsErr(items) THEN ToolFailed(prefix, items, <<>>, results.calls)
       ELSE ToolItems(prefix, [i \in DOMAIN items.l |-> Sub(items.l[i], "album")],
                      ALBUM, data_format.s, answer, PageKeys, results.calls)

\* the tool spotify_get_followed_artists
spotify_get_followed_artists(ctx, limit, after, format, answer) ==
    LET prefix == "Failed to get followed artists"
        service == get_spotify_service(get_access_token(ctx))
        data_format == EnumCall(DataFormat, Lower(format))
        results == ClientCall([api |-> "current_user_followed_artists",
                               limit |-> limit, after |-> after],
                              answer, "Error getting followed artists")
        artists == Sub(answer, "artists")
        items == ListAt(artists, "items")
        cursors == Sub(artists, "cursors")
        next_after == IF IsErr(cursors) THEN cursors
                      ELSE IF Truthy(cursors) THEN Sub(cursors, "after")
                      ELSE Null
        page == IF IsErr(Subscript(artists, <<"total", "limit">>))
                THEN Subscript(artists, <<"total", "limit">>)
                ELSE IF IsErr(next_after) THEN next_after
                ELSE JObj([total |-> artists.f["total"],
                           limit |-> artists.f["limit"],
                           after |-> next_after])
    IN IF IsErr(service) THEN ToolFailed(prefix, service, <<>>, <<>>)
       ELSE IF IsErr(data_format)
            THEN ToolFailed(prefix, data_format, <<>>, <<>>)
       ELSE IF IsErr(answer) \/ data_format.s = RAW
            THEN ToolReturn(prefix, results)
       ELSE IF IsErr(artists)
            THEN ToolFailed(prefix, artists, <<>>, results.calls)
       ELSE IF IsErr(items) THEN ToolFailed(prefix, items, <<>>, results.calls)
       ELSE ToolItems(prefix, items.l, ARTIST, data_format.s, page,
                      <<"total", "limit", "after">>, results.calls)

\* the tool spotify_get_playlist
spotify_get_playlist(ctx, playlist_id, market, format, answer) ==
    LET prefix == "Failed to get playlist"
        service == get_spotify_service(get_access_token(ctx))
        data_format == EnumCall(DataFormat, Lower(format))
        results == ClientCall([api |-> "playlist",
                               playlist_id |-> playlist_id,
                               market |-> market],
                              answer, "Error getting playlist")
    IN IF IsErr(service) THEN ToolFailed(prefix, service, <<>>, <<>>)
       ELSE IF IsErr(data_format)
            THEN ToolFailed(prefix, data_format, <<>>, <<>>)
       ELSE IF IsErr(answer) \/ data_format.s = RAW
            THEN ToolReturn(prefix, results)
       ELSE The({[ret |-> Dumps(ModelDump(run.value)), log |-> run.log,
                  calls |-> results.calls]
                 : run \in {ParseObjectRun(answer, PLAYLIST, data_format.s)}})

\* the tool spotify_get_playlist_tracks: the entries whose track is falsy
\* are left out, the others get added_at and added_by of their entry.
\* track_data is the dump of the model, a new dict, or the track itself
\* when _parse_object handed the raw track back: then the two keys are set
\* on the dict inside the payload, and results is the payload as the loop
\* leaves it
spotify_get_playlist_tracks(ctx, playlist_id, market, limit, offset, format, answer) ==
    LET prefix == "Failed to get playlist tracks"
        service == get_spotify_service(get_access_token(ctx))
        data_format == EnumCall(DataFormat, Lower(format))
        results == ClientCall([api |-> "playlist_tracks",
                               playlist_id |-> playlist_id, limit |-> limit,
                               offset |-> offset, market |-> market],
                              answer, "Error getting playlist tracks")
        items == ListAt(answer, "items")
        \* the entries up to the first without the key "track"
        whole(l) == \A i \in DOMAIN l : ~IsErr(Sub(l[i], "track"))
        upto(l) == IF whole(l) THEN Len(l)
                   ELSE (CHOOSE i \in DOMAIN l :
                           /\ IsErr(Sub(l[i], "track"))
                           /\ \A j \in 1..(i - 1) :
                                ~IsErr(Sub(l[j], "track"))) - 1
        present(item) == Truthy(item.f["track"])
        tagged(item, track_data) ==
            IF track_data.t # "obj" THEN track_data
            ELSE JObj(Update(track_data.f,
                             [added_at |-> Get(item, "added_at"),
                              added_by |-> Get(item, "added_by")]))
        raw(item) ==
            ParseObject(item.f["track"], TRACK, data_format.s).t = "obj"
        after(l) ==
            JObj([answer.f EXCEPT !["items"] =
                JList([i \in DOMAIN l |->
                         IF i <= upto(l) /\ present(l[i]) /\ raw(l[i])
                         THEN JObj([l[i].f EXCEPT
                                       !["track"] = tagged(l[i], @)])
                         ELSE l[i]])])
    IN IF IsErr(service) THEN ToolFailed(prefix, service, <<>>, <<>>)
       ELSE IF IsErr(data_format)
            THEN ToolFailed(prefix, data_format, <<>>, <<>>)
       ELSE IF IsErr(answer) \/ data_format.s = RAW
            THEN ToolReturn(prefix, results)
       ELSE IF IsErr(items) THEN ToolFailed(prefix, items, <<>>, results.calls)
       ELSE The({The({The({
              IF ~whole(items.l)
              THEN Update(ToolFailed(prefix,
                                     Sub(items.l[upto(items.l) + 1], "track"),
                                     logged, results.calls),
                          [results |-> after(items.l)])
              ELSE IF IsErr(Subscript(answer, PageKeys))
              THEN Update(ToolFailed(prefix, Subscript(answer, PageKeys),
                                     logged, results.calls),
                          [results |-> after(items.l)])
              ELSE [results |-> after(items.l),
                    ret |-> Dumps(JObj([k \in {"items"} \cup Range(PageKeys) |->
                              IF k = "items"
                              THEN JList([i \in DOMAIN runs |->
                                            tagged(kept[i],
                                                   ModelDump(runs[i].value))])
                              ELSE answer.f[k]])),
                    log |-> logged, calls |-> results.calls]
              : logged \in {Flatten([i \in DOMAIN runs |-> runs[i].log])}})
            : runs \in {ParseAll([i \in DOMAIN kept |-> kept[i].f["track"]],
                                 TRACK, data_format.s)}})
          : kept \in {SelectSeq(SubSeq(items.l, 1, upto(items.l)), present)}})

\* the tool spotify_get_artist_albums
spotify_get_artist_albums(ctx, artist_id, include_groups, market, limit, offset, format, answer) ==
    LET prefix == "Failed to get artist albums"
        service == get_spotify_service(get_access_token(ctx))
        data_format == EnumCall(DataFormat, Lower(format))
        results == ClientCall([api |-> "artist_albums",
                               artist_id |-> artist_id, album_type |-> Null,
                               country |-> market, limit |-> limit,
                               offset |-> offset,
                               include_groups |->
                                  IF include_groups = Null
                                  THEN <<"album", ",", "single">>
                                  ELSE include_groups],
                              answer, "Error getting artist albums")
        items == ListAt(answer, "items")
    IN IF IsErr(service) THEN ToolFailed(prefix, service, <<>>, <<>>)
       ELSE IF IsErr(data_format)
            THEN ToolFailed(prefix, data_format, <<>>, <<>>)
       ELSE IF IsErr(answer) \/ data_format.s = RAW
            THEN ToolReturn(prefix, results)
       ELSE IF IsErr(items) THEN ToolFailed(prefix, items, <<>>, results.calls)
       ELSE ToolItems(prefix, items.l, ALBUM, data_format.s, answer, PageKeys,
                      results.calls)

\* the tool spotify_get_album_tracks
spotify_get_album_tracks(ctx, album_id, market, limit, offset, format, answer) ==
    LET prefix == "Failed to get album tracks"
        service == get_spotify_service(get_access_token(ctx))
        data_format == EnumCall(DataFormat, Lower(format))
        results == ClientCall([api |-> "album_tracks", album_id |-> album_id,
                               limit |-> limit, offset |-> offset,
                               market |-> market],
                              answer, "Error getting album tracks")
        items == ListAt(answer, "items")
    IN IF IsErr(service) THEN ToolFailed(prefix, service, <<>>, <<>>)
       ELSE IF IsErr(data_format)
            THEN ToolFailed(prefix, data_format, <<>>, <<>>)
       ELSE IF IsErr(answer) \/ data_format.s = RAW
            THEN ToolReturn(prefix, results)
       ELSE IF IsErr(items) THEN ToolFailed(prefix, items, <<>>, results.calls)
       ELSE ToolItems(prefix, items.l, TRACK, data_format.s, answer, PageKeys,
                      results.calls)

\* the tools that take a format, with the type of object each one answers
FormatTools ==
    [spotify_search_music |-> TRACK, spotify_get_saved_tracks |-> TRACK,
     spotify_get_saved_albums |-> ALBUM,
     spotify_get_followed_artists |-> ARTIST,
     spotify_get_user_playlists |-> PLAYLIST,
     spotify_get_playlist |-> PLAYLIST, spotify_get_playlist_tracks |-> TRACK,
     spotify_get_artist_albums |-> ALBUM, spotify_get_album_tracks |-> TRACK]

\* what the upstream answers to the call of a tool: a page of two objects
\* of its type, the second without its id, in the wrapping of the tool; a
\* payload without its keys; a failure
AnswersTool(op, answer) ==
    LET ty == FormatTools[op]
        objs == <<JObj(Template(ty, "id1")),
                  JObj(Without(Template(ty, "id2"), "id"))>>
        paging == [total |-> JInt(2), limit |-> JInt(DefaultLimit),
                   offset |-> JInt(DefaultOffset), next |-> Null,
                   previous |-> Null]
        entry(key, obj) == JObj([k \in {key, "added_at", "added_by"} |->
                                   IF k = key THEN obj ELSE JStr(k)])
        wrapped(key) == JList(<<entry(key, objs[1]), entry(key, Null),
                                entry(key, objs[2])>>)
        page(items) == JObj(Update(paging, [items |-> items]))
    IN answer \in
        {JObj(<<>>), ErrMsg("SpotifyException", "http status 429")}
        \cup
        (CASE op = "spotify_search_music" ->
                {JObj([tracks |-> page(JList(objs))])}
           [] op = "spotify_get_saved_tracks" ->
                {page(JList(<<entry("track", objs[1]),
                              entry("track", objs[2])>>))}
           [] op = "spotify_get_saved_albums" ->
                {page(JList(<<entry("album", objs[1]),
                              entry("album", objs[2])>>))}
           [] op = "spotify_get_followed_artists" ->
                {JObj([artists |->
                        JObj([items |-> JList(objs), total |-> JInt(2),
                              limit |-> JInt(DefaultLimit),
                              cursors |-> c])])
                 : c \in {Null, JObj([after |-> JStr("id2")])}}
           [] op = "spotify_get_playlist" -> {objs[1], objs[2]}
           [] op = "spotify_get_playlist_tracks" -> {page(wrapped("track"))}
           [] OTHER -> {page(JList(objs))})

\* one call of a tool that takes a format
FormatCalls ==
    \E ctx \in Contexts, op \in DOMAIN FormatTools, fmt \in Formats,
       over \in -1..MaxOver :
        /\ \/ /\ op = "spotify_search_music"
              /\ \E types \in {<<>>, <<"Artist", "track">>, <<"shows">>} :
                   req = [op |-> op, ctx |-> ctx, format |-> fmt,
                          query |-> "test", types |-> types,
                          market |-> "US", limit |-> 50 + over,
                          offset |-> DefaultOffset]
           \/ /\ op # "spotify_search_music"
              /\ over = 0
              /\ req = [op |-> op, ctx |-> ctx, format |-> fmt,
                        id |-> "id0", market |-> "US",
                        limit |-> DefaultLimit, offset |-> DefaultOffset]
        /\ AnswersTool(op, up)

CallSpotifySearchMusic ==
    /\ pc = "call"
    /\ req.op = "spotify_search_music"
    /\ \E run \in {spotify_search_music(req.ctx, req.query, req.types,
                                        req.market, req.limit, req.offset,
                                        req.format, up)} :
          Finish(run)

CallSpotifyGetSavedTracks ==
    /\ pc = "call"
    /\ req.op = "spotify_get_saved_tracks"
    /\ \E run \in {spotify_get_saved_tracks(req.ctx, req.limit, req.offset,
                                            req.market, req.format, up)} :
          Finish(run)

CallSpotifyGetUserPlaylists ==
    /\ pc = "call"
    /\ req.op = "spotify_get_user_playlists"
    /\ \E run \in {spotify_get_user_playlists(req.ctx, req.limit, req.offset,
                                              req.format, up)} :
          Finish(run)

CallSpotifyGetSavedAlbums ==
    /\ pc = "call"
    /\ req.op = "spotify_get_saved_albums"
    /\ \E run \in {spotify_get_saved_albums(req.ctx, req.limit, req.offset,
                                            req.market, req.format, up)} :
          Finish(run)

CallSpotifyGetFollowedArtists ==
    /\ pc = "call"
    /\ req.op = "spotify_get_followed_artists"
    /\ \E run \in {spotify_get_followed_artists(req.ctx, req.limit, Null,
                                                req.format, up)} :
          Finish(run)

CallSpotifyGetPlaylist ==
    /\ pc = "call"
    /\ req.op = "spotify_get_playlist"
    /\ \E run \in {spotify_get_playlist(req.ctx, req.id, req.market,
                                        req.format, up)} :
          Finish(run)

CallSpotifyGetPlaylistTracks ==
    /\ pc = "call"
    /\ req.op = "spotify_get_playlist_tracks"
    /\ \E run \in {spotify_get_playlist_tracks(req.ctx, req.id, req.market,
                                               req.limit, req.offset,
                                               req.format, up)} :
          /\ ret' = run.ret
          /\ log' = log \o run.log
          /\ calls' = calls \o run.calls
          /\ pc' = "done"
          \* the payload the client returned, as the tool leaves it
          /\ up' = IF "results" \in DOMAIN run THEN run.results ELSE up
          /\ UNCHANGED req

CallSpotifyGetArtistAlbums ==
    /\ pc = "call"
    /\ req.op = "spotify_get_artist_albums"
    /\ \E run \in {spotify_get_artist_albums(req.ctx, req.id, Null,
                                             req.market, req.limit,
                                             req.offset, req.format, up)} :
          Finish(run)

CallSpotifyGetAlbumTracks ==
    /\ pc = "call"
    /\ req.op = "spotify_get_album_tracks"
    /\ \E run \in {spotify_get_album_tracks(req.ctx, req.id, req.market,
                                            req.limit, req.offset,
                                            req.format, up)} :
          Finish(run)

(***************************** token validation ***************************)
\* k in data: a key of a dict, an element of a list, TypeError on None,
\* numbers and booleans
In(k, data) ==
    CASE data.t = "obj" -> JBool(k \in DOMAIN data.f)
      [] data.t = "list" -> JBool(\E i \in DOMAIN data.l : data.l[i] = JStr(k))
      [] OTHER -> Err("TypeError")

\* x.get(k): AttributeError on everything but a dict
DictGet(x, k) == IF x.t = "obj" THEN Get(x, k) ELSE Err("AttributeError")

\* SpotifyTokenInfo(access_token=token, user_id=data["id"], ...), all fields
\* read off the body in the order of the call
TokenInfoOf(token, data) ==
    LET followers == DictGet(data, "followers")
        total == IF IsErr(followers) THEN followers
                 ELSE IF Truthy(followers) THEN DictGet(followers, "total")
                 ELSE Null
        given == [user_id |-> Sub(data, "id"),
                  display_name |-> DictGet(data, "display_name"),
                  email |-> DictGet(data, "email"),
                  country |-> DictGet(data, "country"),
                  product |-> DictGet(data, "product"),
                  followers |-> total]
        e == FirstErr(given, <<"user_id", "display_name", "email", "country",
                               "product", "followers">>)
    IN IF IsErr(e) THEN e
       ELSE Construct("SpotifyTokenInfo",
                      Update(given, [access_token |-> JStr(token),
                                     token_type |-> JStr("Bearer")]))

\* the body of validate_token inside its try, after the response came:
\* the record, None, or the exception raised on the way
Validated(token, response) ==
    LET data == response.body
        has_error == In("error", data)
        has_id == In("id", data)
    IN IF response.status_code # 200 THEN None
       ELSE IF IsErr(data) THEN data
       ELSE IF IsErr(has_error) THEN has_error
       ELSE IF has_error.b
            THEN IF IsErr(DictGet(data, "error")) THEN DictGet(data, "error")
                 ELSE IF DictGet(data, "error").t # "obj"
                 THEN Err("AttributeError")
                 ELSE None
       ELSE IF ~has_id.b THEN None
       ELSE TokenInfoOf(token, data)

\* SpotifyTokenValidator.validate_token accepting a body that has an error
\* key beside its id
validate_token_ignoring_error(token, response) ==
    LET called == <<[api |-> "GET", url |-> "https://api.spotify.com/v1/me",
                     authorization |-> <<Bearer, token>>, timeout |-> 10]>>
        failed(e) == [ret |-> None,
                      log |-> <<[level |-> "error",
                                 msg |-> <<"Spotify token validation error",
                                           StrOf(e)>>]>>,
                      calls |-> called]
    IN IF IsErr(response) THEN failed(response)
       ELSE The({IF IsErr(info) THEN failed(info)
                 ELSE [ret |-> info,
                       log |-> IF info = None
                               THEN <<[level |-> "warning",
                                       msg |-> "Spotify token validation"]>>
                               ELSE <<>>,
                       calls |-> called]
                 : info \in {IF response.status_code = 200
                                /\ ~IsErr(response.body)
                                /\ response.body.t = "obj"
                                /\ "id" \in DOMAIN response.body.f
                             THEN TokenInfoOf(token, response.body)
                             ELSE Validated(token, response)}})

\* SpotifyTokenValidator.validate_token: one GET of the endpoint; whatever
\* is raised inside the try is logged and None is returned
validate_token(token, response) ==
    LET called == <<[api |-> "GET", url |-> "https://api.spotify.com/v1/me",
                     authorization |-> <<Bearer, token>>, timeout |-> 10]>>
        failed(e) == [ret |-> None,
                      log |-> <<[level |-> "error",
                                 msg |-> <<"Spotify token validation error",
                                           StrOf(e)>>]>>,
                      calls |-> called]
    IN IF IsErr(response) THEN failed(response)
       ELSE The({IF IsErr(info) THEN failed(info)
                 ELSE [ret |-> info,
                       log |-> IF info = None
                               THEN <<[level |-> "warning",
                                       msg |-> "Spotify token validation"]>>
                               ELSE <<>>,
                       calls |-> called]
                 : info \in {Validated(token, response)}})

\* dependencies.get_validated_token handing on whatever the validator gave
get_validated_token_unchecked(access_token, response) ==
    validate_token(access_token, response)

\* dependencies.get_validated_token: the record of the validator, or
\* HTTPException 401; its own HTTPException is raised inside the try and
\* wrapped by the except clause
get_validated_token(access_token, response) ==
    The({IF run.ret = None
         THEN [ret |-> HTTPException(401,
                          <<"Token validation failed",
                            StrOf(HTTPException(401,
                                    "Invalid or expired token"))>>),
               log |-> run.log, calls |-> run.calls]
         ELSE run
         : run \in {validate_token(access_token, response)}})

\* SPOTIFY_SCOPES, the required scopes of the global verifier
SPOTIFY_SCOPES ==
    <<"user-read-private", "user-read-email", "user-library-read",
      "user-library-modify", "playlist-read-private",
      "playlist-read-collaborative", "playlist-modify-public",
      "playlist-modify-private", "user-read-playback-state",
      "user-modify-playback-state", "user-read-currently-playing",
      "user-read-recently-played", "user-top-read", "user-follow-read",
      "user-follow-modify">>

\* SpotifyTokenVerifier.verify_token: the AccessToken of the record of the
\* validator, None without one
verify_token(token, response) ==
    The({IF run.ret = None THEN run
         ELSE [ret |-> [t |-> "AccessToken",
                        f |-> [token |-> run.ret.f["access_token"],
                               client_id |-> run.ret.f["user_id"],
                               scopes |-> SPOTIFY_SCOPES,
                               expires_at |-> Null, resource |-> Null]],
               log |-> run.log, calls |-> run.calls]
         : run \in {validate_token(token, response)}})

\* the profile the endpoint answers for a valid token
TProfile ==
    [id |-> JStr("u1"), display_name |-> JStr("User One"),
     email |-> JStr("u1@example.com"), country |-> JStr("SE"),
     product |-> JStr("premium"),
     followers |-> JObj([href |-> Null, total |-> JInt(10)])]

\* the bodies of a response: profiles whole and damaged, error bodies,
\* JSON that is no dict, and text that is no JSON (json() raises)
Bodies ==
    {JObj(TProfile), JObj([id |-> JStr("u1")]), JObj(Without(TProfile, "id")),
     JObj(With(TProfile, "id", JInt(7))), JObj(With(TProfile, "id", Null)),
     JObj(With(TProfile, "followers", Null)),
     JObj(With(TProfile, "followers", JList(<<JInt(1)>>))),
     JObj(With(TProfile, "email", JInt(7))),
     JObj(With(TProfile, "error",
               JObj([status |-> JInt(401), message |-> JStr("expired")]))),
     JObj([error |-> JObj([status |-> JInt(401)])]),
     JObj([error |-> JStr("invalid_token")]),
     JObj(<<>>), JList(<<>>), JList(<<JStr("id")>>), JList(<<JStr("error")>>),
     Null, JInt(7), Err("JSONDecodeError")}

\* what the endpoint does with the request: a response, or the exception
\* the client raises (time-out after 10 s, no connection)
Responses ==
    {[t |-> "response", status_code |-> c, body |-> b] :
        c \in {200, 201, 401, 403, 429, 503}, b \in Bodies}
    \cup {Err("TimeoutException"), Err("ConnectError")}

InitAuth ==
    /\ pc = "call"
    /\ \E op \in {"validate_token", "get_validated_token", "verify_token"},
          token \in {"tok", ""} :
         req = [op |-> op, token |-> token]
    /\ up \in Responses
    /\ ret = None
    /\ log = <<>>
    /\ calls = <<>>

CallValidateToken ==
    /\ pc = "call"
    /\ req.op = "validate_token"
    /\ \E run \in {validate_token(req.token, up)} : Finish(run)

CallGetValidatedToken ==
    /\ pc = "call"
    /\ req.op = "get_validated_token"
    /\ \E run \in {get_validated_token(req.token, up)} : Finish(run)

CallVerifyToken ==
    /\ pc = "call"
    /\ req.op = "verify_token"
    /\ \E run \in {verify_token(req.token, up)} : Finish(run)

NextAuth == CallValidateToken \/ CallGetValidatedToken \/ CallVerifyToken

SpecAuth == InitAuth /\ [][NextAuth]_vars

(***************************** the tool calls ******************************)
\* one call of one tool (or of the service method a tool wraps)
InitTools ==
    /\ pc = "call"
    /\ \/ TopItemsCalls
       \/ BatchCalls
       \/ IdListCalls
       \/ PlaybackCalls
       \/ StartCalls
       \/ FormatCalls
    /\ ret = None
    /\ log = <<>>
    /\ calls = <<>>

NextTools ==
    \/ CallGetTopItems
    \/ CallSpotifyGetTopItems
    \/ CallSpotifyGetTrackAudioFeatures
    \/ CallSpotifyGetArtistInfo
    \/ CallSpotifyAddTracksToPlaylist
    \/ CallSpotifySaveTracks
    \/ CallSpotifyRemoveSavedTracks
    \/ CallSpotifyFollowArtists
    \/ CallSpotifySeekToPosition
    \/ CallSpotifySetVolume
    \/ CallSpotifyStartPlayback
    \/ CallSpotifySearchMusic
    \/ CallSpotifyGetSavedTracks
    \/ CallSpotifyGetUserPlaylists
    \/ CallSpotifyGetSavedAlbums
    \/ CallSpotifyGetFollowedArtists
    \/ CallSpotifyGetPlaylist
    \/ CallSpotifyGetPlaylistTracks
    \/ CallSpotifyGetArtistAlbums
    \/ CallSpotifyGetAlbumTracks

SpecTools == InitTools /\ [][NextTools]_vars

\* the Authorization header of the call yields a token
Authorized ==
    /\ req.ctx # Null /\ req.ctx.request_context # Null
    /\ "Authorization" \in DOMAIN req.ctx.request_context.headers
    /\ req.ctx.request_context.headers["Authorization"] # <<>>
    /\ Head(req.ctx.request_context.headers["Authorization"]) = Bearer

\* C11: get_top_items with an item type other than "tracks" or "artists"
\* fails, and no upstream call is made on that path: called directly the
\* service raises with the message of its ValueError, through the tool an
\* authorized call ends as HTTPException 400.
C11_TopItemsValidatedFirst ==
    /\ (pc = "done" /\ req.op = "get_top_items"
          /\ req.item_type \notin {"tracks", "artists"}) =>
            /\ IsErr(ret) /\ calls = <<>>
            /\ ret.msg[2] = "Invalid item_type"
    /\ (pc = "done" /\ req.op = "spotify_get_top_items"
          /\ req.type \notin {"tracks", "artists"}) =>
            /\ IsErr(ret) /\ calls = <<>>
            /\ Authorized => ret.status = 400

\* an authorized call of the tool for "albums" with an upstream ready to
\* answer a page
C11_Witness ==
    /\ pc = "done" /\ req.op = "spotify_get_top_items" /\ Authorized
    /\ req.type = "albums" /\ req.time_range = "Long_Term"
    /\ up.t = "obj"
    /\ ret.status = 400 /\ calls = <<>>

\* the batch tools, the list each takes and its maximum length
BatchTools ==
    [spotify_get_track_audio_features |->
        [ids |-> "track_ids", max |-> MaxTrackIds, api |-> "audio_features"],
     spotify_get_artist_info |->
        [ids |-> "artist_ids", max |-> MaxArtistIds, api |-> "artists"],
     spotify_add_tracks_to_playlist |->
        [ids |-> "track_uris", max |-> MaxTrackUris,
         api |-> "playlist_add_items"]]
\* the format name given to the call, if it takes one, is a DataFormat
FormatValid ==
    "format" \in DOMAIN req => ~IsErr(EnumCall(DataFormat, Lower(req.format)))

\* C12: batch-size bounds without truncation. An authorized call of a batch
\* tool with a list longer than the maximum of the tool ends as
\* HTTPException 400 without an upstream call; with a list of at most that
\* length (and a valid format) it makes exactly one upstream call, which
\* carries the list as given, complete and in order.
C12_BatchBounds ==
    (pc = "done" /\ req.op \in DOMAIN BatchTools /\ Authorized) =>
        LET tool == BatchTools[req.op]
            given == req[tool.ids]
        IN IF Len(given) > tool.max
           THEN /\ IsErr(ret) /\ ret.status = 400
                /\ calls = <<>>
           ELSE FormatValid =>
                    /\ Len(calls) = 1
                    /\ calls[1].api = tool.api
                    /\ calls[1].ids = given

\* exactly 100 track ids go upstream
C12_Witness ==
    /\ pc = "done" /\ req.op = "spotify_get_track_audio_features"
    /\ Authorized
    /\ Len(req.track_ids) = MaxTrackIds
    /\ Len(calls) = 1 /\ Len(calls[1].ids) = MaxTrackIds
    /\ ret.t = "json" /\ Len(ret.v.l) = 1

IdListTools ==
    {"spotify_save_tracks", "spotify_remove_saved_tracks",
     "spotify_follow_artists"}
\* the identifiers a comma-delimited string names: its pieces between
\* commas, each without the blanks around it, the empty ones not counted
Named(ids) ==
    LET parts == SplitOn(ids, ",")
        named(x) == x # <<>>
    IN SelectSeq([i \in DOMAIN parts |-> Strip(parts[i])], named)

\* C13: an authorized call of a tool that takes identifiers as one
\* comma-delimited string forwards upstream the string split on commas with
\* every element trimmed; a string that names no identifier and one that
\* names more than 50 end as a validation failure (400) without an
\* upstream call.
C13_IdListSplitAndTrimmed ==
    (pc = "done" /\ req.op \in IdListTools /\ Authorized) =>
        IF Named(req.ids) = <<>> \/ Len(Named(req.ids)) > MaxIds
        THEN IsErr(ret) /\ ret.e = "HTTPException" /\ ret.status = 400
             /\ calls = <<>>
        ELSE Len(calls) = 1 /\ calls[1].ids = Named(req.ids)

\* C14: range checks on the playback controls. An authorized
\* spotify_set_volume makes an upstream call exactly when
\* 0 <= volume_percent <= 100, an authorized spotify_seek_to_position
\* exactly when position_ms >= 0; a value out of range ends as
\* HTTPException 400 without an upstream call, a value in range (0 and 100
\* included) goes upstream unchanged, once.
C14_PlaybackRanges ==
    /\ (pc = "done" /\ req.op = "spotify_set_volume" /\ Authorized) =>
          IF 0 <= req.volume_percent /\ req.volume_percent <= 100
          THEN /\ Len(calls) = 1 /\ calls[1].api = "volume"
               /\ calls[1].volume_percent = req.volume_percent
               /\ calls[1].device_id = req.device_id
          ELSE IsErr(ret) /\ ret.status = 400 /\ calls = <<>>
    /\ (pc = "done" /\ req.op = "spotify_seek_to_position" /\ Authorized) =>
          IF req.position_ms >= 0
          THEN /\ Len(calls) = 1 /\ calls[1].api = "seek_track"
               /\ calls[1].position_ms = req.position_ms
               /\ calls[1].device_id = req.device_id
          ELSE IsErr(ret) /\ ret.status = 400 /\ calls = <<>>

\* the volume 100 goes upstream and the tool answers with it
C14_Witness ==
    /\ pc = "done" /\ req.op = "spotify_set_volume" /\ Authorized
    /\ req.volume_percent = 100
    /\ Len(calls) = 1 /\ calls[1].volume_percent = 100
    /\ ret.t = "json"

\* the tools that take a format: those of FormatTools and the artist info
FormatSelecting == DOMAIN FormatTools \cup {"spotify_get_artist_info"}

\* C15: in every tool that takes a format selector (search, saved tracks,
\* saved albums, followed artists, user playlists, playlist, playlist
\* tracks, artist info, artist albums, album tracks) an authorized call
\* with a format string that names no DataFormat ends as HTTPException 400
\* and makes no upstream call.
C15_BadFormatBeforeUpstream ==
    (pc = "done" /\ req.op \in FormatSelecting /\ Authorized
       /\ ~FormatValid) =>
        /\ IsErr(ret) /\ ret.e = "HTTPException" /\ ret.status = 400
        /\ calls = <<>>

\* the format "raw " with an upstream ready to answer a page of albums
C15_Witness ==
    /\ pc = "done" /\ req.op = "spotify_get_saved_albums" /\ Authorized
    /\ req.format = <<"r", "a", "w", " ">>
    /\ up.t = "obj" /\ "items" \in DOMAIN up.f
    /\ ret.status = 400 /\ calls = <<>>

\* the call comes with a request whose Authorization header is missing or
\* does not start with "Bearer "
Unauthenticated ==
    /\ "ctx" \in DOMAIN req
    /\ req.ctx # Null /\ req.ctx.request_context # Null
    /\ ~Authorized

\* C16: a tool call whose request has no Authorization header, or one that
\* does not start with "Bearer ", ends as an authentication failure
\* (status 401) surfaced to the caller, and no upstream call is made.
C16_UnauthenticatedIs401 ==
    (pc = "done" /\ Unauthenticated /\ req.op \notin IdListTools) =>
        /\ IsErr(ret) /\ ret.e = "HTTPException" /\ ret.status = 401
        /\ calls = <<>>

\* the endpoint answered 200 with a dict that has an id and no error key
Accepted ==
    /\ ~IsErr(up) /\ up.status_code = 200
    /\ ~IsErr(up.body) /\ up.body.t = "obj"
    /\ "id" \in DOMAIN up.body.f /\ "error" \notin DOMAIN up.body.f
\* the validator, asked about the token of the request, returns a record
ValidatorGrants == validate_token(req.token, up).ret # None

\* C17: validate_token returns an identity record only when the endpoint
\* answered 200 with a body that has an id and no error key; otherwise
\* (another status, an error body, no id, a time-out, any exception) it
\* returns None; it never raises, and it makes exactly one request.
C17_ValidateToken ==
    (pc = "done" /\ req.op = "validate_token") =>
        /\ ~IsErr(ret)
        /\ ret # None => (Accepted /\ ret.t = "SpotifyTokenInfo"
                            /\ ret.f["access_token"] = JStr(req.token)
                            /\ ret.f["user_id"] = up.body.f["id"])
        /\ Len(calls) = 1

\* a body with an id beside an error key, answered with 200: no record
C17_Witness ==
    /\ pc = "done" /\ req.op = "validate_token"
    /\ ~IsErr(up) /\ up.status_code = 200 /\ ~IsErr(up.body)
    /\ up.body.t = "obj" /\ {"id", "error"} \subseteq DOMAIN up.body.f
    /\ ret = None /\ Len(calls) = 1

\* C18: no identity for a rejected token. get_validated_token returns an
\* identity record exactly when the validator returned one and otherwise
\* fails with status 401, the message of the exception attached;
\* verify_token returns an AccessToken exactly when the validator returned
\* a record and otherwise returns None, without raising.
C18_NoIdentityForRejected ==
    /\ (pc = "done" /\ req.op = "get_validated_token") =>
          IF ValidatorGrants
          THEN ret = validate_token(req.token, up).ret
          ELSE /\ IsErr(ret) /\ ret.e = "HTTPException" /\ ret.status = 401
               /\ ret.detail[1] = "Token validation failed"
    /\ (pc = "done" /\ req.op = "verify_token") =>
          /\ ~IsErr(ret)
          /\ IF ValidatorGrants
             THEN /\ ret.t = "AccessToken"
                  /\ ret.f["token"] = JStr(req.token)
             ELSE ret = None

\* a 401 of the endpoint ends get_validated_token with HTTPException 401
C18_Witness ==
    /\ pc = "done" /\ req.op = "get_validated_token"
    /\ ~IsErr(up) /\ up.status_code = 401
    /\ IsErr(ret) /\ ret.status = 401

\* the nested artists of a record are Artists given exactly the MINIMAL
\* fields
ArtistsMinimal(rec) ==
    /\ rec.f["artists"].t = "list"
    /\ \A i \in DOMAIN rec.f["artists"].l :
          HasExactly(rec.f["artists"].l[i], "Artist", MinimalArtistKeys)

\* C19: whatever the outer format (MINIMAL, COMPACT, FULL) and whatever the
\* raw nested objects hold, every artist nested in a normalized Track or
\* Album, and the album nested in a normalized Track, carries the MINIMAL
\* fields only: images, popularity, genres, followers, album_type,
\* release_date and every other field above MINIMAL are null.
C19_NestedAlwaysMinimal ==
    (pc = "done" /\ Tiered /\ ret.t \in {"Track", "Album"}) =>
        /\ ArtistsMinimal(ret)
        /\ (ret.t = "Track" /\ ret.f["album"] # Null) =>
              /\ HasExactly(ret.f["album"], "Album",
                            MinimalArtistKeys \cup {"artists"})
              /\ ArtistsMinimal(ret.f["album"])

\* a track built at FULL from an upstream track whose artist has images and
\* whose album has a release date
C19_Witness ==
    /\ pc = "done" /\ Tiered /\ req.format = FULL /\ ret.t = "Track"
    /\ ret.f["artists"].l # <<>>
    /\ "images" \in DOMAIN req.obj.f["artists"].l[1].f
    /\ req.obj.f["artists"].l[1].f["images"] # Null
    /\ ret.f["artists"].l[1].f["images"] = Null
    /\ ret.f["album"] # Null
    /\ "release_date" \in DOMAIN req.obj.f["album"].f
    /\ req.obj.f["album"].f["release_date"] # Null
    /\ ret.f["album"].f["release_date"] = Null

\* C20: RAW returns the upstream payload verbatim. A search at format RAW
\* that the upstream answered returns a SearchResponse whose slot of every
\* requested type, once dumped, holds exactly the upstream items of that
\* type (nothing validated, added or stripped), also when an upstream item
\* lacks a field the schema requires.
C20_RawSearchVerbatim ==
    (pc = "done" /\ Answered /\ req.format = RAW) =>
        /\ ret.t = "SearchResponse"
        /\ \A ty \in Found \cap Parsed :
              ModelDump(ret.f[KeyOf[ty]]) = JList(Slot(ty))

(***************************** the bearer extractors ***********************)
\* auth.extract_bearer_token: None for no header and for one that does not
\* start with "Bearer ", else auth_header[7:], the header after its first
\* piece
extract_bearer_token(auth_header) ==
    IF auth_header = <<>> THEN None
    ELSE IF Head(auth_header) # Bearer THEN None
    ELSE JStr(Tail(auth_header))

\* the pieces an Authorization header is made of, and how many at most
HeaderPieces == {Bearer, "tok", "Basic ", "bearer "}
MaxPieces == 3

InitHeader ==
    /\ pc = "call"
    /\ \E h \in SeqsUpTo(HeaderPieces, MaxPieces) :
          \/ req = [op |-> "get_access_token", auth_header |-> h,
                    ctx |-> [request_context |->
                               [headers |-> [Authorization |-> h]]]]
          \/ req = [op |-> "extract_bearer_token", auth_header |-> h]
    /\ up = None
    /\ ret = None
    /\ log = <<>>
    /\ calls = <<>>

CallGetAccessToken ==
    /\ pc = "call"
    /\ req.op = "get_access_token"
    /\ Finish([ret |-> get_access_token(req.ctx), log |-> <<>>,
               calls |-> <<>>])

CallExtractBearerToken ==
    /\ pc = "call"
    /\ req.op = "extract_bearer_token"
    /\ Finish([ret |-> extract_bearer_token(req.auth_header), log |-> <<>>,
               calls |-> <<>>])

NextHeader == CallGetAccessToken \/ CallExtractBearerToken

SpecHeader == InitHeader /\ [][NextHeader]_vars

(***************************** concurrent requests *************************)
\* the tool calls and token verifications served at the same time
NumRequests == 2
Requests == 1..NumRequests

\* a service kept in one place for all requests: the one built last, here
\* that of the highest request that has one
ServiceOfShared(r, locals) ==
    locals[CHOOSE q \in Requests :
              /\ locals[q].service # None
              /\ \A o \in Requests : locals[o].service # None => o <= q].service

\* the service a request calls the client through: the one it built itself
\* (service = get_spotify_service(...) is a local of the tool)
ServiceOf(r, locals) == locals[r].service

\* what one request is: a call of spotify_set_volume or of verify_token,
\* with the answer the upstream has for it
ConcurrentRequests ==
    {[op |-> "spotify_set_volume", ctx |-> ctx, volume_percent |-> v,
      device_id |-> Null, answer |-> a] :
        ctx \in {[request_context |-> [headers |-> <<>>]],
                 [request_context |->
                    [headers |-> [Authorization |-> <<Bearer, "tokA">>]]],
                 [request_context |->
                    [headers |-> [Authorization |-> <<Bearer, "tokB">>]]]},
        v \in {50, MaxVolume + 1},
        a \in {Null, ErrMsg("SpotifyException", "http status 404")}}
    \cup
    {[op |-> "verify_token", token |-> tok, answer |-> a] :
        tok \in {"tokA", "tokB"},
        a \in {[t |-> "response", status_code |-> 200,
                body |-> JObj([id |-> JStr("user1")])],
               [t |-> "response", status_code |-> 401, body |-> JObj(<<>>)],
               Err("TimeoutException")}}

\* every request is about to start; nothing was sent or logged
InitConcurrent ==
    /\ req \in [Requests -> ConcurrentRequests]
    /\ up = [r \in Requests |-> req[r].answer]
    /\ pc = [r \in Requests |-> [at |-> "start", service |-> None]]
    /\ ret = [r \in Requests |-> None]
    /\ log = <<>>
    /\ calls = <<>>

\* request r ends with the outcome run.ret
Returns(r, value, logged) ==
    /\ ret' = [ret EXCEPT ![r] = value]
    /\ pc' = [pc EXCEPT ![r].at = "done"]
    /\ log' = log \o logged
    /\ UNCHANGED <<req, up, calls>>

\* the tool up to its service call: the service is built for the token of
\* the request and the argument is checked
Enter(r) ==
    /\ pc[r].at = "start"
    /\ req[r].op = "spotify_set_volume"
    /\ \E service \in {get_spotify_service(get_access_token(req[r].ctx))} :
         IF IsErr(service)
               \/ ~(0 <= req[r].volume_percent
                      /\ req[r].volume_percent <= MaxVolume)
         THEN \E run \in {spotify_set_volume(req[r].ctx, req[r].volume_percent,
                                             req[r].device_id, up[r])} :
                 Returns(r, run.ret, run.log)
         ELSE /\ pc' = [pc EXCEPT ![r] = [at |-> "built", service |-> service]]
              /\ UNCHANGED <<req, up, ret, log, calls>>

\* the request goes upstream: the client of the service sends its token;
\* the validator sends the token it was given
Send(r) ==
    /\ \/ /\ pc[r].at = "built"
          /\ calls' = Append(calls,
                        [api |-> "volume", for |-> r,
                         token |-> ServiceOf(r, pc).access_token,
                         volume_percent |-> req[r].volume_percent,
                         device_id |-> req[r].device_id])
       \/ /\ pc[r].at = "start"
          /\ req[r].op = "verify_token"
          /\ calls' = Append(calls,
                        [api |-> "GET", for |-> r, token |-> req[r].token])
    /\ pc' = [pc EXCEPT ![r].at = "sent"]
    /\ UNCHANGED <<req, up, ret, log>>

\* the answer has come and the request runs to its return or its raise
Receive(r) ==
    /\ pc[r].at = "sent"
    /\ \E run \in {IF req[r].op = "verify_token"
                   THEN verify_token(req[r].token, up[r])
                   ELSE spotify_set_volume(req[r].ctx, req[r].volume_percent,
                                           req[r].device_id, up[r])} :
          Returns(r, run.ret, run.log)

NextConcurrent == \E r \in Requests : Enter(r) \/ Send(r) \/ Receive(r)

SpecConcurrent == InitConcurrent /\ [][NextConcurrent]_vars

\* the failure of the first upstream call of the operation that failed,
\* None when the operation made no call or none of its calls failed
UpstreamFailure ==
    CASE req.op = "create_playlist" ->
            IF IsErr(up.user) THEN up.user
            ELSE IF IsErr(Sub(up.user, "id")) THEN None
            ELSE IF IsErr(up.result) THEN up.result
            ELSE None
      [] req.op = "get_top_items" /\ req.item_type \notin {"tracks", "artists"}
            -> None
      [] OTHER -> IF IsErr(up) THEN up ELSE None

\* C21: no retry. Once an upstream call of a facade operation fails, the
\* operation ends in a failure that carries the upstream message, and the
\* failed call is the last one it made; in every run each upstream
\* endpoint is called at most once.
C21_NoRetry ==
    pc = "done" =>
        /\ UpstreamFailure # None =>
              /\ IsErr(ret) /\ ret.msg[2] = StrOf(UpstreamFailure)
              /\ Len(calls) = IF req.op = "create_playlist" /\ ~IsErr(up.user)
                              THEN 2 ELSE 1
        /\ \A i, j \in DOMAIN calls : calls[i].api = calls[j].api => i = j

\* creating the playlist fails after the current user was found: two
\* calls, the failure of the second one reported
C21_Witness ==
    /\ pc = "done" /\ req.op = "create_playlist"
    /\ ~IsErr(up.user) /\ IsErr(up.result)
    /\ Len(calls) = 2 /\ calls[2].api = "user_playlist_create"
    /\ IsErr(ret) /\ ret.msg[2] = StrOf(up.result)

\* the bearer token request r came with
TokenOf(r) ==
    IF req[r].op = "verify_token" THEN req[r].token
    ELSE get_access_token(req[r].ctx).s
\* what request r does when it is served alone
Alone(r) ==
    IF req[r].op = "verify_token" THEN verify_token(req[r].token, up[r])
    ELSE spotify_set_volume(req[r].ctx, req[r].volume_percent,
                            req[r].device_id, up[r])

\* C22: request isolation. Under every interleaving of the requests served
\* at the same time, each upstream call carries the bearer token of the
\* request it is made for, a request makes the upstream calls it makes
\* when served alone, and the result of a finished request is the result
\* it has when served alone against the same upstream answer.
C22_RequestIsolation ==
    /\ \A i \in DOMAIN calls : calls[i].token = TokenOf(calls[i].for)
    /\ \A r \in Requests :
          /\ Cardinality({i \in DOMAIN calls : calls[i].for = r})
                <= Len(Alone(r).calls)
          /\ pc[r].at = "done" =>
                /\ ret[r] = Alone(r).ret
                /\ Cardinality({i \in DOMAIN calls : calls[i].for = r})
                      = Len(Alone(r).calls)

\* two volume calls with different tokens, the second request built its
\* service before the first one sent: each call carries its own token
C22_Witness ==
    /\ \A r \in Requests : pc[r].at = "done"
    /\ Len(calls) = 2
    /\ calls[1].api = "volume" /\ calls[2].api = "volume"
    /\ calls[1].token # calls[2].token
    /\ calls[1].for = 1 /\ calls[2].for = 2

\* the classes the _parse_* builders return
Built == {"Track", "Album", "Artist", "Playlist"}
\* the largest of a set of naturals, 0 for none
Largest(S) == IF S = {} THEN 0 ELSE CHOOSE n \in S : \A m \in S : m <= n
RECURSIVE Levels(_)
\* how many builders stand above one another in a value: every instance a
\* builder returned holds the instances the builders it called returned
Levels(v) ==
    IF "l" \in DOMAIN v
    THEN Largest({Levels(v.l[i]) : i \in DOMAIN v.l})
    ELSE IF "f" \in DOMAIN v
    THEN (IF v.t \in Built THEN 1 ELSE 0)
         + Largest({Levels(v.f[k]) : k \in DOMAIN v.f})
    ELSE 0

\* C23 as stated: normalizing an object calls nested builders at most one
\* level below the outer builder; the builder called for a nested reference
\* calls no builder itself.
C23_OneLevelBelow == pc = "done" => Levels(ret) <= 2

\* C23, amended: the builders stand at most two levels below the outer one.
\* A track (at COMPACT and FULL) calls the album builder for its album and
\* the album builder calls the artist builder for the artists of the album;
\* an album has its artists one level below; the artist builder and the
\* playlist builder call none. The depth is fixed by the code, not by the
\* input, so the normalization of every object ends.
C23_DepthBounded ==
    pc = "done" =>
        /\ Levels(ret) <= 3
        /\ ret.t = "Album" => Levels(ret) <= 2
        /\ ret.t \in {"Artist", "Playlist"} => Levels(ret) = 1
        /\ (ret.t = "Track" /\ req.format = MINIMAL) => Levels(ret) <= 2

\* a track at FULL whose album has an artist: three builders deep
C23_Witness ==
    /\ pc = "done" /\ Tiered /\ req.format = FULL /\ ret.t = "Track"
    /\ ret.f["album"] # Null
    /\ ret.f["album"].f["artists"].l # <<>>
    /\ Levels(ret) = 3

\* C24: pagination is carried, not computed. The PaginatedResponse that
\* get_user_playlists, get_saved_tracks and get_top_items return has the
\* total, limit, offset, next and previous of the upstream page, and its
\* items are as many as the upstream items and in their order: the i-th is
\* what _parse_object makes of the i-th upstream item.
C24_PaginationCarried ==
    (pc = "done" /\ req.op \in ListingOps /\ ret.t = "PaginatedResponse") =>
        /\ \A k \in {"total", "limit", "offset", "next", "previous"} :
              ret.f[k] = up.f[k]
        /\ Len(ret.f["items"].l) = Len(up.f["items"].l)
        /\ \A i \in DOMAIN Listed :
              ret.f["items"].l[i]
                 = ParseObject(Listed[i], ListedType, ListedFormat)

\* a page of two playlists, id2 before id1, of five in all
C24_Witness ==
    /\ pc = "done" /\ req.op = "get_user_playlists" /\ req.format = COMPACT
    /\ ret.t = "PaginatedResponse"
    /\ up.f["total"] = JInt(5) /\ ret.f["total"] = JInt(5)
    /\ ret.f["next"] = JStr("https://api/next")
    /\ Len(up.f["items"].l) = 2
    /\ ret.f["items"].l[1].t = "Playlist"
    /\ ret.f["items"].l[2].t = "Playlist"
    /\ ret.f["items"].l[1].f["id"] = JStr("id2")
    /\ ret.f["items"].l[2].f["id"] = JStr("id1")

\* the keys _parse_playback_state subscripts
PlaybackRequired ==
    {"repeat_state", "shuffle_state", "timestamp", "is_playing",
     "currently_playing_type"}
CompactTrackKeys ==
    MinimalTrackKeys
        \cup {"album", "duration_ms", "explicit", "popularity", "preview_url"}
\* the upstream reports a playback that has an item
HasItem == "item" \in DOMAIN up.f /\ up.f["item"] # Null

C26_ExtractorsAgree ==
    (pc = "done" /\ req.op = "get_access_token") =>
        IF IsErr(ret) THEN extract_bearer_token(req.auth_header) = None
        ELSE extract_bearer_token(req.auth_header) = ret

\* C27: error classes are not confused. In spotify_get_artist_info and
\* spotify_set_volume a failure the upstream client call raised, whatever
\* its exception type, ends as HTTPException 500 and never as the 400 of
\* an invalid parameter: a 400 comes only from a check of an argument,
\* before any upstream call.
C27_UpstreamFailureIs500 ==
    (pc = "done" /\ req.op \in {"spotify_get_artist_info", "spotify_set_volume"}
       /\ Authorized) =>
        /\ (calls # <<>> /\ IsErr(up)) => IsErr(ret) /\ ret.status = 500
        /\ (IsErr(ret) /\ ret.status = 400) => calls = <<>>

\* C28: search totals match returned slots. In every SearchResponse, every
\* requested type whose upstream total went into total_results (the types
\* the answer has a slot for, show, episode and user among them) has the
\* items of its slot in the response, one response item per upstream item.
C28_CountedTypesHaveSlots ==
    (pc = "done" /\ Answered /\ ret.t = "SearchResponse") =>
        \A ty \in Found :
            /\ KeyOf[ty] \in DOMAIN ret.f
            /\ ret.f[KeyOf[ty]] # Null
            /\ Len(ret.f[KeyOf[ty]].l) = Len(Slot(ty))

\* C29: spotify_start_playback forwards what the caller supplied. Every
\* one of device_id, context_uri, uris and position_ms given with a value
\* other than null goes to the upstream client with that value, the offset
\* goes as {position: offset_position} when offset_position is given and
\* else as {uri: offset_uri} when offset_uri is, and the parameters of the
\* success response are exactly the parameters that went upstream.
C29_StartPlaybackForwards ==
    (pc = "done" /\ req.op = "spotify_start_playback" /\ Authorized) =>
        /\ Len(calls) = 1 /\ calls[1].api = "start_playback"
        /\ \A k \in {"device_id", "context_uri", "uris", "position_ms"} :
              req[k] # Null =>
                 /\ k \in DOMAIN calls[1].kwargs
                 /\ calls[1].kwargs[k] = req[k]
        /\ (req.offset_position # Null \/ req.offset_uri # Null) =>
              /\ "offset" \in DOMAIN calls[1].kwargs
              /\ calls[1].kwargs["offset"]
                    = IF req.offset_position # Null
                      THEN JObj([position |-> req.offset_position])
                      ELSE JObj([uri |-> req.offset_uri])
        /\ ret.t = "json" => ret.v.f["parameters"] = JObj(calls[1].kwargs)

\* the entries of the page of playlist tracks whose track is not null
WithTrack ==
    LET has(entry) == entry.f["track"] # Null
    IN SelectSeq(up.f["items"].l, has)
\* the DataFormat the format string of the call names
Chosen == EnumCall(DataFormat, Lower(req.format))
\* the response item without the two keys of the playlist entry
Untagged(item) == JObj(Without(Without(item.f, "added_at"), "added_by"))

\* C30: spotify_get_playlist_tracks at a format other than raw. Every
\* upstream entry with a track gives one response item, in upstream order:
\* the dump of the track at the format (the track itself when it fell back
\* to its raw form) with added_at and added_by of that entry; the entries
\* with a null track are skipped; and the call leaves the upstream payload
\* as it was.
C30_PlaylistTracksFrame ==
    [][(/\ pc = "call" /\ req.op = "spotify_get_playlist_tracks"
        /\ Authorized /\ ~IsErr(Chosen) /\ Chosen.s # RAW
        /\ up.t = "obj" /\ "items" \in DOMAIN up.f) =>
          /\ ret'.t = "json"
          /\ Len(ret'.v.f["items"].l) = Len(WithTrack)
          /\ \A i \in DOMAIN WithTrack :
                /\ ret'.v.f["items"].l[i].f["added_at"]
                      = WithTrack[i].f["added_at"]
                /\ ret'.v.f["items"].l[i].f["added_by"]
                      = WithTrack[i].f["added_by"]
                /\ Untagged(ret'.v.f["items"].l[i])
                      = ModelDump(ParseObject(WithTrack[i].f["track"], TRACK,
                                              Chosen.s))
          /\ up' = up]_vars

====
